---- MODULE Spec2Model ----
(***************************************************************************)
(* The code-highlighting engine of claude-history-viewer                   *)
(* (src/src/ts/highlight.ts): the rule table and its aliases, the escaper, *)
(* the ordered classification passes with their placeholder ledger, and    *)
(* the restoration pass.                                                   *)
(*                                                                         *)
(* A JavaScript string is a sequence of one-character strings.  The        *)
(* regular expressions of the rule table are written out as matchers that  *)
(* return, for a start position, the position just after the match the     *)
(* backtracking engine finds there (0 when it finds none).                 *)
(***************************************************************************)
EXTENDS Integers, Sequences, FiniteSets, TLC

VARIABLES
  pc,           \* where the current highlight() call stands
  code,         \* argument `code`
  language,     \* argument `language` (Undefined when not passed)
  rules,        \* const rules (highlight.ts line 93)
  result,       \* let result: the working text, at the end the return value
  placeholders, \* const placeholders: the ledger
  origin,       \* history: per character of result, its position in the escaped
                \* code, or 0 for a character the engine wrote
  log,          \* history: per ledger entry, its class, the index its sentinel
                \* carries and the origins of the characters it matched
  restored,     \* history: the replacements the restoration pass made, in order
  lastIndex,    \* the lastIndex of each shared RegExp object of the rule table
  guess,        \* the detectLanguage() call that has just returned, if any
  memo,         \* history: one earlier call, with what it returned
  state,        \* the application state object (state.ts)
  dom,          \* what the handlers of main.ts have set in the document
  localStorage, \* the value stored under STORAGE_KEY (theme.ts), "missing" if none
  prefersDark,  \* window.matchMedia('(prefers-color-scheme: dark)').matches
  tasks,        \* the server requests in flight, each with the handler awaiting it
  calls,        \* history: the last deleteSession call, and how the last request settled
  toasted,      \* the toast shown last (toast.ts)
  cycled,       \* history: the cycleTheme calls since the store was last changed
                \* from outside, with the theme read before the first of them
  keydown,      \* history: the last keydown event and what its listener did
  format        \* the formatContentWithHighlight() call in progress (render.ts)

\* highlight()'s arguments and locals, and the rule table's mutable state
hvars ==
  <<pc, code, language, rules, result, placeholders, origin, log, restored, lastIndex>>

\* the page: main.ts, state.ts, theme.ts, api.ts, toast.ts, keyboard.ts, render.ts
pvars ==
  <<state, dom, localStorage, prefersDark, tasks, calls, toasted, cycled, keydown, format>>

vars == <<hvars, guess, memo, pvars>>

\* what a statement of highlight() cannot reach
outside == <<guess, memo, pvars>>

\* no detectLanguage() call has just returned, no earlier call is remembered, no
\* toast has been shown
None == [fn |-> "none"]

----------------------------------------------------------------------------
(* Characters and the classes the regular expressions use *)

\* U+0000, and the backquote, neither of which a string of this notation can hold
NUL == "NUL"
BACKTICK == "BACKTICK"

Digit == {"0", "1", "2", "3", "4", "5", "6", "7", "8", "9"}

LowerCase ==
  {"a", "b", "c", "d", "e", "f", "g", "h", "i", "j", "k", "l", "m",
   "n", "o", "p", "q", "r", "s", "t", "u", "v", "w", "x", "y", "z"}

UpperCase ==
  {"A", "B", "C", "D", "E", "F", "G", "H", "I", "J", "K", "L", "M",
   "N", "O", "P", "Q", "R", "S", "T", "U", "V", "W", "X", "Y", "Z"}

\* [a-zA-Z_]
IdentStart == LowerCase \cup UpperCase \cup {"_"}

\* \w
WordChar == IdentStart \cup Digit

\* \s (the members that occur in the modelled inputs)
Space == {" ", "\t", "\n", "\r", "\f"}

\* the line terminators: what `.` does not match and `$` (flag m) stops before
LineTerm == {"\n", "\r"}

\* String.prototype.toLowerCase on one character
LowerOf(c) ==
  CASE c = "A" -> "a" [] c = "B" -> "b" [] c = "C" -> "c" [] c = "D" -> "d"
    [] c = "E" -> "e" [] c = "F" -> "f" [] c = "G" -> "g" [] c = "H" -> "h"
    [] c = "I" -> "i" [] c = "J" -> "j" [] c = "K" -> "k" [] c = "L" -> "l"
    [] c = "M" -> "m" [] c = "N" -> "n" [] c = "O" -> "o" [] c = "P" -> "p"
    [] c = "Q" -> "q" [] c = "R" -> "r" [] c = "S" -> "s" [] c = "T" -> "t"
    [] c = "U" -> "u" [] c = "V" -> "v" [] c = "W" -> "w" [] c = "X" -> "x"
    [] c = "Y" -> "y" [] c = "Z" -> "z" [] OTHER -> c

toLowerCase(s) == [k \in 1..Len(s) |-> LowerOf(s[k])]

----------------------------------------------------------------------------
(* Regular-expression primitives.  Positions are 1-based; an end position  *)
(* is the position just after the last matched character.                  *)

CharAt(t, p) == IF p >= 1 /\ p <= Len(t) THEN t[p] ELSE ""

IsWordAt(t, p) == p >= 1 /\ p <= Len(t) /\ t[p] \in WordChar

\* \b at the gap before position p
WB(t, p) == IsWordAt(t, p - 1) # IsWordAt(t, p)

\* the literal w stands at position p
StartsAt(t, p, w) ==
  /\ p >= 1
  /\ p + Len(w) - 1 <= Len(t)
  /\ \A k \in 1..Len(w) : t[p + k - 1] = w[k]

\* the same under flag i
StartsAtCI(t, p, w) ==
  /\ p >= 1
  /\ p + Len(w) - 1 <= Len(t)
  /\ \A k \in 1..Len(w) : LowerOf(t[p + k - 1]) = LowerOf(w[k])

\* greedy [S]* from p: the end of the longest run of characters of S
RunEnd(t, p, S) ==
  IF p > Len(t) THEN p ELSE
  CHOOSE q \in p..(Len(t) + 1) :
    /\ \A k \in p..(q - 1) : t[k] \in S
    /\ (q = Len(t) + 1 \/ t[q] \notin S)

\* greedy [^S]* from p
RunEndNot(t, p, S) ==
  IF p > Len(t) THEN p ELSE
  CHOOSE q \in p..(Len(t) + 1) :
    /\ \A k \in p..(q - 1) : t[k] \notin S
    /\ (q = Len(t) + 1 \/ t[q] \in S)

\* lazy [\s\S]*? followed by the literal w: the first place >= p where w stands
FindFrom(t, p, w) ==
  LET Q == {q \in p..(Len(t) + 1) : StartsAt(t, q, w)}
  IN  IF Q = {} THEN 0 ELSE CHOOSE q \in Q : \A r \in Q : q <= r

\* an ordered alternation a|b: b is tried only when a fails
OrElse(a, b) == IF a > 0 THEN a ELSE b

\* a greedy quantifier backing off: rest[k] being where the rest of the pattern
\* ends when the quantifier stops at k (0: it fails), the engine takes the
\* largest k at which the rest succeeds
Longest(rest) ==
  LET K == {k \in DOMAIN rest : rest[k] > 0}
  IN  IF K = {} THEN 0 ELSE rest[CHOOSE k \in K : \A j \in K : j <= k]

\* (?:[^q\\]|\\.)*q  from p, inside a literal opened by q
RECURSIVE QuotedBody(_, _, _)
QuotedBody(t, p, q) ==
  IF p > Len(t) THEN 0
  ELSE IF t[p] = q THEN p + 1
  ELSE IF t[p] = "\\"
    THEN IF p + 1 <= Len(t) /\ t[p + 1] \notin LineTerm
           THEN QuotedBody(t, p + 2, q)
           ELSE 0
  ELSE QuotedBody(t, p + 1, q)

\* q(?:[^q\\]|\\.)*q
Quoted(t, i, q) == IF CharAt(t, i) = q THEN QuotedBody(t, i + 1, q) ELSE 0

\* qqq[\s\S]*?qqq
TripleQuoted(t, i, q) ==
  IF StartsAt(t, i, <<q, q, q>>)
    THEN LET c == FindFrom(t, i + 3, <<q, q, q>>) IN IF c > 0 THEN c + 3 ELSE 0
    ELSE 0

\* /\*[\s\S]*?\*/
BlockComment(t, i) ==
  IF StartsAt(t, i, <<"/", "*">>)
    THEN LET c == FindFrom(t, i + 2, <<"*", "/">>) IN IF c > 0 THEN c + 2 ELSE 0
    ELSE 0

\* m.*$ under flag m, for the marker m
LineComment(t, i, m) ==
  IF StartsAt(t, i, m) THEN RunEndNot(t, i + Len(m), LineTerm) ELSE 0

----------------------------------------------------------------------------
(* The patterns of the rule table (highlight.ts lines 17-72), each as      *)
(* MatchEnd at a start position i.                                         *)

\* javascript.strings, typescript.strings (lines 22, 32)
jsStrings(t, i) ==
  OrElse(Quoted(t, i, "\""), OrElse(Quoted(t, i, "'"), Quoted(t, i, BACKTICK)))

\* python.strings (line 42)
pyStrings(t, i) ==
  OrElse(TripleQuoted(t, i, "\""),
  OrElse(TripleQuoted(t, i, "'"),
  OrElse(Quoted(t, i, "\""), Quoted(t, i, "'"))))

\* bash.strings (line 51): the second alternative is '[^']*'
bashStrings(t, i) ==
  OrElse(Quoted(t, i, "\""),
         IF CharAt(t, i) = "'"
           THEN LET c == FindFrom(t, i + 1, <<"'">>) IN IF c > 0 THEN c + 1 ELSE 0
           ELSE 0)

\* json.strings (line 57): a key, its trailing white space, then (?=:)
jsonStrings(t, i) ==
  LET e == Quoted(t, i, "\"")
  IN  IF e = 0 THEN 0
      ELSE LET w == RunEnd(t, e, Space)
           IN  IF CharAt(t, w) = ":" THEN w ELSE 0

\* css.strings, html.strings (lines 64, 69)
cssStrings(t, i) == OrElse(Quoted(t, i, "\""), Quoted(t, i, "'"))

\* javascript.comments, typescript.comments (lines 23, 33)
jsComments(t, i) == OrElse(LineComment(t, i, <<"/", "/">>), BlockComment(t, i))

\* python.comments, bash.comments (lines 43, 52)
hashComments(t, i) == LineComment(t, i, <<"#">>)

\* css.comments (line 65)
cssComments(t, i) == BlockComment(t, i)

\* html.comments (line 70)
htmlComments(t, i) ==
  IF StartsAt(t, i, <<"<", "!", "-", "-">>)
    THEN LET c == FindFrom(t, i + 4, <<"-", "-", ">">>) IN IF c > 0 THEN c + 3 ELSE 0
    ELSE 0

\* the closing \b of a numbers pattern
AtBoundary(t, p) == IF WB(t, p) THEN p ELSE 0

\* j? then \b (python), flag i
ImaginaryThen(t, p) ==
  OrElse(IF LowerOf(CharAt(t, p)) = "j" THEN AtBoundary(t, p + 1) ELSE 0,
         AtBoundary(t, p))

\* css.numbers: the units, in the order of the alternation (line 66)
cssUnits ==
  << <<"p", "x">>, <<"e", "m">>, <<"r", "e", "m">>, <<"%">>, <<"v", "h">>,
     <<"v", "w">>, <<"d", "e", "g">>, <<"s">>, <<"m", "s">> >>

\* (?:px|em|rem|%|vh|vw|deg|s|ms)? then \b, from p, flag i
UnitThen(t, p) ==
  LET K == {k \in 1..Len(cssUnits) :
              StartsAtCI(t, p, cssUnits[k]) /\ WB(t, p + Len(cssUnits[k]))}
      first == CHOOSE k \in K : \A j \in K : k <= j
  IN  IF K = {} THEN AtBoundary(t, p) ELSE p + Len(cssUnits[first])

\* the end of the numbers pattern of dialect v, from p: \b, in python j?\b, in
\* css (unit)?\b
Suffix(t, p, v) ==
  CASE v = "js"  -> AtBoundary(t, p)
    [] v = "py"  -> ImaginaryThen(t, p)
    [] v = "css" -> UnitThen(t, p)

\* (?:e[+-]?\d+)? from p: the places where the group can end, p itself (the group
\* skipped) included; css has no such group
ExponentEnds(t, p, v) ==
  LET s == IF CharAt(t, p + 1) \in {"+", "-"} THEN p + 2 ELSE p + 1
  IN  IF v # "css" /\ LowerOf(CharAt(t, p)) = "e"
        THEN {p} \cup (s + 1)..RunEnd(t, s, Digit)
        ELSE {p}

\* what follows \d+\.?\d* in the numbers pattern of dialect v: the exponent is
\* tried first, its \d+ backing off digit by digit, and then skipped
NumberTail(t, p, v) == Longest([k \in ExponentEnds(t, p, v) |-> Suffix(t, k, v)])

\* \d* then the tail, from p: the digits back off one by one
FractionThen(t, p, v) ==
  Longest([k \in p..RunEnd(t, p, Digit) |-> NumberTail(t, k, v)])

\* \.? then \d* then the tail, from p: the dot is taken first when it is there
DotThen(t, p, v) ==
  Longest([k \in (IF CharAt(t, p) = "." THEN {p, p + 1} ELSE {p}) |->
             FractionThen(t, k, v)])

\* \d+\.?\d*(tail)\b from s, the leading \d+ backing off digit by digit
NumberBody(t, s, v) ==
  Longest([k \in (s + 1)..RunEnd(t, s, Digit) |-> DotThen(t, k, v)])

\* javascript.numbers, typescript.numbers (lines 24, 34)
jsNumbers(t, i) == IF WB(t, i) THEN NumberBody(t, i, "js") ELSE 0

\* python.numbers (line 44)
pyNumbers(t, i) == IF WB(t, i) THEN NumberBody(t, i, "py") ELSE 0

\* bash.numbers (line 53): \b(\d+)\b
bashNumbers(t, i) ==
  IF WB(t, i)
    THEN Longest([k \in (i + 1)..RunEnd(t, i, Digit) |-> AtBoundary(t, k)])
    ELSE 0

\* json.numbers (line 59): \b(-?\d+...)\b, the sign taken when it is there
jsonNumbers(t, i) ==
  IF ~WB(t, i) THEN 0
  ELSE NumberBody(t, IF CharAt(t, i) = "-" THEN i + 1 ELSE i, "js")

\* css.numbers (line 66)
cssNumbers(t, i) == IF WB(t, i) THEN NumberBody(t, i, "css") ELSE 0

\* javascript/typescript/python.functions (lines 26, 36, 46):
\* \b([a-zA-Z_]\w*)\s*(?=\()
identCall(t, i) ==
  IF CharAt(t, i) \in IdentStart /\ WB(t, i)
    THEN LET s == RunEnd(t, RunEnd(t, i, WordChar), Space)
         IN  IF CharAt(t, s) = "(" THEN s ELSE 0
    ELSE 0

\* new RegExp(`\\b(${words.join('|')})\\b`, 'g') (lines 128, 133, 138): the first
\* word, in list order, that stands at i between two word boundaries
wordList(t, i, words) ==
  LET K == {k \in 1..Len(words) :
              StartsAt(t, i, words[k]) /\ WB(t, i + Len(words[k]))}
      first == CHOOSE k \in K : \A j \in K : k <= j
  IN  IF ~WB(t, i) \/ K = {} THEN 0 ELSE i + Len(words[first])

\* /\x00(\d+)\x00/g (line 143)
sentinelRe(t, i) ==
  IF CharAt(t, i) = NUL
    THEN LET d == RunEnd(t, i + 1, Digit)
         IN  IF d > i + 1 /\ CharAt(t, d) = NUL THEN d + 1 ELSE 0
    ELSE 0

----------------------------------------------------------------------------
(* The word lists of the rule table, in the order the source lists them *)

WordLists ==
  [\* highlight.ts line 19
   javascript_keywords |->
  <<
     <<"c","o","n","s","t">>, <<"l","e","t">>, <<"v","a","r">>,
     <<"f","u","n","c","t","i","o","n">>, <<"r","e","t","u","r","n">>, <<"i","f">>,
     <<"e","l","s","e">>, <<"f","o","r">>, <<"w","h","i","l","e">>, <<"d","o">>,
     <<"s","w","i","t","c","h">>, <<"c","a","s","e">>, <<"b","r","e","a","k">>,
     <<"c","o","n","t","i","n","u","e">>, <<"t","r","y">>, <<"c","a","t","c","h">>,
     <<"f","i","n","a","l","l","y">>, <<"t","h","r","o","w">>, <<"a","s","y","n","c">>,
     <<"a","w","a","i","t">>, <<"c","l","a","s","s">>, <<"e","x","t","e","n","d","s">>,
     <<"n","e","w">>, <<"t","h","i","s">>, <<"s","u","p","e","r">>, <<"i","m","p","o","r","t">>,
     <<"e","x","p","o","r","t">>, <<"f","r","o","m">>, <<"d","e","f","a","u","l","t">>,
     <<"t","y","p","e","o","f">>, <<"i","n","s","t","a","n","c","e","o","f">>, <<"i","n">>,
     <<"o","f">>, <<"d","e","l","e","t","e">>, <<"v","o","i","d">>, <<"y","i","e","l","d">>
  >>,
   \* highlight.ts line 20
   javascript_types |->
  <<
     <<"n","u","l","l">>, <<"u","n","d","e","f","i","n","e","d">>, <<"t","r","u","e">>,
     <<"f","a","l","s","e">>, <<"N","a","N">>, <<"I","n","f","i","n","i","t","y">>
  >>,
   \* highlight.ts line 21
   javascript_builtins |->
  <<
     <<"c","o","n","s","o","l","e">>, <<"w","i","n","d","o","w">>,
     <<"d","o","c","u","m","e","n","t">>, <<"M","a","t","h">>, <<"J","S","O","N">>,
     <<"A","r","r","a","y">>, <<"O","b","j","e","c","t">>, <<"S","t","r","i","n","g">>,
     <<"N","u","m","b","e","r">>, <<"B","o","o","l","e","a","n">>, <<"D","a","t","e">>,
     <<"R","e","g","E","x","p">>, <<"E","r","r","o","r">>, <<"P","r","o","m","i","s","e">>,
     <<"M","a","p">>, <<"S","e","t">>
  >>,
   \* highlight.ts line 29
   typescript_keywords |->
  <<
     <<"c","o","n","s","t">>, <<"l","e","t">>, <<"v","a","r">>,
     <<"f","u","n","c","t","i","o","n">>, <<"r","e","t","u","r","n">>, <<"i","f">>,
     <<"e","l","s","e">>, <<"f","o","r">>, <<"w","h","i","l","e">>, <<"d","o">>,
     <<"s","w","i","t","c","h">>, <<"c","a","s","e">>, <<"b","r","e","a","k">>,
     <<"c","o","n","t","i","n","u","e">>, <<"t","r","y">>, <<"c","a","t","c","h">>,
     <<"f","i","n","a","l","l","y">>, <<"t","h","r","o","w">>, <<"a","s","y","n","c">>,
     <<"a","w","a","i","t">>, <<"c","l","a","s","s">>, <<"e","x","t","e","n","d","s">>,
     <<"n","e","w">>, <<"t","h","i","s">>, <<"s","u","p","e","r">>, <<"i","m","p","o","r","t">>,
     <<"e","x","p","o","r","t">>, <<"f","r","o","m">>, <<"d","e","f","a","u","l","t">>,
     <<"t","y","p","e","o","f">>, <<"i","n","s","t","a","n","c","e","o","f">>, <<"i","n">>,
     <<"o","f">>, <<"d","e","l","e","t","e">>, <<"v","o","i","d">>, <<"y","i","e","l","d">>,
     <<"t","y","p","e">>, <<"i","n","t","e","r","f","a","c","e">>, <<"e","n","u","m">>,
     <<"n","a","m","e","s","p","a","c","e">>, <<"m","o","d","u","l","e">>,
     <<"d","e","c","l","a","r","e">>, <<"a","b","s","t","r","a","c","t">>,
     <<"i","m","p","l","e","m","e","n","t","s">>, <<"p","r","i","v","a","t","e">>,
     <<"p","u","b","l","i","c">>, <<"p","r","o","t","e","c","t","e","d">>,
     <<"r","e","a","d","o","n","l","y">>, <<"s","t","a","t","i","c">>, <<"a","s">>, <<"i","s">>,
     <<"k","e","y","o","f">>, <<"i","n","f","e","r">>
  >>,
   \* highlight.ts line 30
   typescript_types |->
  <<
     <<"n","u","l","l">>, <<"u","n","d","e","f","i","n","e","d">>, <<"t","r","u","e">>,
     <<"f","a","l","s","e">>, <<"N","a","N">>, <<"I","n","f","i","n","i","t","y">>,
     <<"s","t","r","i","n","g">>, <<"n","u","m","b","e","r">>, <<"b","o","o","l","e","a","n">>,
     <<"a","n","y">>, <<"u","n","k","n","o","w","n">>, <<"n","e","v","e","r">>,
     <<"v","o","i","d">>, <<"o","b","j","e","c","t">>
  >>,
   \* highlight.ts line 31
   typescript_builtins |->
  <<
     <<"c","o","n","s","o","l","e">>, <<"w","i","n","d","o","w">>,
     <<"d","o","c","u","m","e","n","t">>, <<"M","a","t","h">>, <<"J","S","O","N">>,
     <<"A","r","r","a","y">>, <<"O","b","j","e","c","t">>, <<"S","t","r","i","n","g">>,
     <<"N","u","m","b","e","r">>, <<"B","o","o","l","e","a","n">>, <<"D","a","t","e">>,
     <<"R","e","g","E","x","p">>, <<"E","r","r","o","r">>, <<"P","r","o","m","i","s","e">>,
     <<"M","a","p">>, <<"S","e","t">>, <<"R","e","c","o","r","d">>,
     <<"P","a","r","t","i","a","l">>, <<"R","e","q","u","i","r","e","d">>, <<"P","i","c","k">>,
     <<"O","m","i","t">>
  >>,
   \* highlight.ts line 39
   python_keywords |->
  <<
     <<"d","e","f">>, <<"c","l","a","s","s">>, <<"i","f">>, <<"e","l","i","f">>,
     <<"e","l","s","e">>, <<"f","o","r">>, <<"w","h","i","l","e">>, <<"t","r","y">>,
     <<"e","x","c","e","p","t">>, <<"f","i","n","a","l","l","y">>, <<"w","i","t","h">>,
     <<"a","s">>, <<"i","m","p","o","r","t">>, <<"f","r","o","m">>, <<"r","e","t","u","r","n">>,
     <<"y","i","e","l","d">>, <<"r","a","i","s","e">>, <<"p","a","s","s">>,
     <<"b","r","e","a","k">>, <<"c","o","n","t","i","n","u","e">>, <<"l","a","m","b","d","a">>,
     <<"a","n","d">>, <<"o","r">>, <<"n","o","t">>, <<"i","n">>, <<"i","s">>,
     <<"g","l","o","b","a","l">>, <<"n","o","n","l","o","c","a","l">>, <<"a","s","s","e","r","t">>,
     <<"d","e","l">>, <<"a","s","y","n","c">>, <<"a","w","a","i","t">>
  >>,
   \* highlight.ts line 40
   python_types |->
  <<
     <<"N","o","n","e">>, <<"T","r","u","e">>, <<"F","a","l","s","e">>
  >>,
   \* highlight.ts line 41
   python_builtins |->
  <<
     <<"p","r","i","n","t">>, <<"l","e","n">>, <<"r","a","n","g","e">>, <<"s","t","r">>,
     <<"i","n","t">>, <<"f","l","o","a","t">>, <<"l","i","s","t">>, <<"d","i","c","t">>,
     <<"s","e","t">>, <<"t","u","p","l","e">>, <<"b","o","o","l">>, <<"t","y","p","e">>,
     <<"i","s","i","n","s","t","a","n","c","e">>, <<"h","a","s","a","t","t","r">>,
     <<"g","e","t","a","t","t","r">>, <<"s","e","t","a","t","t","r">>, <<"o","p","e","n">>,
     <<"i","n","p","u","t">>, <<"m","a","p">>, <<"f","i","l","t","e","r">>, <<"z","i","p">>,
     <<"e","n","u","m","e","r","a","t","e">>, <<"s","o","r","t","e","d">>,
     <<"r","e","v","e","r","s","e","d">>, <<"s","u","m">>, <<"m","i","n">>, <<"m","a","x">>,
     <<"a","b","s">>, <<"r","o","u","n","d">>
  >>,
   \* highlight.ts line 49
   bash_keywords |->
  <<
     <<"i","f">>, <<"t","h","e","n">>, <<"e","l","s","e">>, <<"e","l","i","f">>, <<"f","i">>,
     <<"f","o","r">>, <<"d","o">>, <<"d","o","n","e">>, <<"w","h","i","l","e">>,
     <<"u","n","t","i","l">>, <<"c","a","s","e">>, <<"e","s","a","c">>,
     <<"f","u","n","c","t","i","o","n">>, <<"r","e","t","u","r","n">>, <<"i","n">>,
     <<"s","e","l","e","c","t">>
  >>,
   \* highlight.ts line 50
   bash_builtins |->
  <<
     <<"e","c","h","o">>, <<"c","d">>, <<"p","w","d">>, <<"l","s">>, <<"c","a","t">>,
     <<"g","r","e","p">>, <<"s","e","d">>, <<"a","w","k">>, <<"f","i","n","d">>,
     <<"x","a","r","g","s">>, <<"s","o","r","t">>, <<"u","n","i","q">>, <<"w","c">>,
     <<"h","e","a","d">>, <<"t","a","i","l">>, <<"c","u","t">>, <<"t","r">>,
     <<"m","k","d","i","r">>, <<"r","m">>, <<"c","p">>, <<"m","v">>, <<"c","h","m","o","d">>,
     <<"c","h","o","w","n">>, <<"e","x","p","o","r","t">>, <<"s","o","u","r","c","e">>,
     <<"a","l","i","a","s">>, <<"e","x","i","t">>
  >>,
   \* highlight.ts line 58
   json_types |->
  <<
     <<"t","r","u","e">>, <<"f","a","l","s","e">>, <<"n","u","l","l">>
  >>,
   \* highlight.ts line 62
   css_keywords |->
  <<
     <<"@","i","m","p","o","r","t">>, <<"@","m","e","d","i","a">>,
     <<"@","k","e","y","f","r","a","m","e","s">>, <<"@","f","o","n","t","-","f","a","c","e">>,
     <<"@","s","u","p","p","o","r","t","s">>, <<"@","c","h","a","r","s","e","t">>
  >>,
   \* highlight.ts line 63
   css_builtins |->
  <<
     <<"i","n","h","e","r","i","t">>, <<"i","n","i","t","i","a","l">>, <<"u","n","s","e","t">>,
     <<"n","o","n","e">>, <<"a","u","t","o">>, <<"b","l","o","c","k">>,
     <<"i","n","l","i","n","e">>, <<"f","l","e","x">>, <<"g","r","i","d">>,
     <<"a","b","s","o","l","u","t","e">>, <<"r","e","l","a","t","i","v","e">>,
     <<"f","i","x","e","d">>, <<"s","t","i","c","k","y">>
  >>]

----------------------------------------------------------------------------
(* The rule table.  A rule set holds only the fields the source gives it;  *)
(* a pattern field names its regular expression.                           *)

\* MatchEnd of the pattern named re at position i of t
MatchEnd(re, t, i) ==
  CASE re = "jsStrings"    -> jsStrings(t, i)
    [] re = "pyStrings"    -> pyStrings(t, i)
    [] re = "bashStrings"  -> bashStrings(t, i)
    [] re = "jsonStrings"  -> jsonStrings(t, i)
    [] re = "cssStrings"   -> cssStrings(t, i)
    [] re = "jsComments"   -> jsComments(t, i)
    [] re = "hashComments" -> hashComments(t, i)
    [] re = "cssComments"  -> cssComments(t, i)
    [] re = "htmlComments" -> htmlComments(t, i)
    [] re = "jsNumbers"    -> jsNumbers(t, i)
    [] re = "pyNumbers"    -> pyNumbers(t, i)
    [] re = "bashNumbers"  -> bashNumbers(t, i)
    [] re = "jsonNumbers"  -> jsonNumbers(t, i)
    [] re = "cssNumbers"   -> cssNumbers(t, i)
    [] re = "identCall"    -> identCall(t, i)
    [] re = "sentinelRe"   -> sentinelRe(t, i)

\* the keys of `languages`, the aliases of lines 75-80 included
Key ==
  [javascript |-> <<"j", "a", "v", "a", "s", "c", "r", "i", "p", "t">>,
   typescript |-> <<"t", "y", "p", "e", "s", "c", "r", "i", "p", "t">>,
   python |-> <<"p", "y", "t", "h", "o", "n">>,
   bash |-> <<"b", "a", "s", "h">>,
   json |-> <<"j", "s", "o", "n">>,
   css |-> <<"c", "s", "s">>,
   html |-> <<"h", "t", "m", "l">>,
   js |-> <<"j", "s">>,
   ts |-> <<"t", "s">>,
   py |-> <<"p", "y">>,
   sh |-> <<"s", "h">>,
   shell |-> <<"s", "h", "e", "l", "l">>,
   zsh |-> <<"z", "s", "h">>]

LanguageKeys ==
  {Key.javascript, Key.typescript, Key.python, Key.bash, Key.json, Key.css, Key.html,
   Key.js, Key.ts, Key.py, Key.sh, Key.shell, Key.zsh}

languages ==
  LET
      javascript ==
        [kind |-> "rules",
         keywords |-> WordLists.javascript_keywords, types |-> WordLists.javascript_types,
         builtins |-> WordLists.javascript_builtins,
         strings |-> "jsStrings", comments |-> "jsComments", numbers |-> "jsNumbers",
         functions |-> "identCall"]
      typescript ==
        [kind |-> "rules",
         keywords |-> WordLists.typescript_keywords, types |-> WordLists.typescript_types,
         builtins |-> WordLists.typescript_builtins,
         strings |-> "jsStrings", comments |-> "jsComments", numbers |-> "jsNumbers",
         functions |-> "identCall"]
      python ==
        [kind |-> "rules",
         keywords |-> WordLists.python_keywords, types |-> WordLists.python_types, builtins |-> WordLists.python_builtins,
         strings |-> "pyStrings", comments |-> "hashComments", numbers |-> "pyNumbers",
         functions |-> "identCall"]
      bash ==
        [kind |-> "rules",
         keywords |-> WordLists.bash_keywords, builtins |-> WordLists.bash_builtins,
         strings |-> "bashStrings", comments |-> "hashComments", numbers |-> "bashNumbers"]
      json ==
        [kind |-> "rules",
         strings |-> "jsonStrings", types |-> WordLists.json_types, numbers |-> "jsonNumbers"]
      css ==
        [kind |-> "rules",
         keywords |-> WordLists.css_keywords, builtins |-> WordLists.css_builtins,
         strings |-> "cssStrings", comments |-> "cssComments", numbers |-> "cssNumbers"]
      html ==
        [kind |-> "rules", strings |-> "cssStrings", comments |-> "htmlComments"]
  IN
  [k \in LanguageKeys |->
     CASE k \in {Key.javascript, Key.js} -> javascript
       [] k \in {Key.typescript, Key.ts} -> typescript
       [] k \in {Key.python, Key.py}     -> python
       [] k \in {Key.bash, Key.sh, Key.shell, Key.zsh} -> bash
       [] k = Key.json -> json
       [] k = Key.css  -> css
       [] k = Key.html -> html]

\* `languages` is an object literal: a key it does not own is looked up on
\* Object.prototype, where the lower-case names constructor and __proto__ hold
\* objects (truthy, with none of the rule fields)
ObjectPrototypeKeys ==
  {<<"c", "o", "n", "s", "t", "r", "u", "c", "t", "o", "r">>,
   <<"_", "_", "p", "r", "o", "t", "o", "_", "_">>}

\* an argument that was not passed
Undefined == <<"undefined">>

\* lang ? languages[lang] : null (line 93), lang being language?.toLowerCase()
LookupRules(lang) ==
  IF lang = Undefined \/ lang = <<>> THEN [kind |-> "null"]
  ELSE IF lang \in LanguageKeys THEN languages[lang]
  ELSE IF lang \in ObjectPrototypeKeys THEN [kind |-> "object"]
  ELSE [kind |-> "null"]

\* the tag taken as it was passed
LangOfAsPassed(l) == l

\* language?.toLowerCase() (line 92)
LangOf(l) == IF l = Undefined THEN Undefined ELSE toLowerCase(l)

----------------------------------------------------------------------------
(* The escaper (lines 83-88) *)

\* text.replace(/c/g, rep) for a one-character pattern
RECURSIVE ReplaceChar(_, _, _)
ReplaceChar(t, c, rep) ==
  IF t = <<>> THEN <<>>
  ELSE (IF Head(t) = c THEN rep ELSE <<Head(t)>>) \o ReplaceChar(Tail(t), c, rep)

\* escapeHtml with the replacement of & alone
escapeHtmlAmpOnly(text) ==
  ReplaceChar(text, "&", <<"&", "a", "m", "p", ";">>)

\* escapeHtml without its second replacement
escapeHtmlKeepsLt(text) ==
  ReplaceChar(
    ReplaceChar(text, "&", <<"&", "a", "m", "p", ";">>),
    ">", <<"&", "g", "t", ";">>)

\* escapeHtml with the replacement of & made last
escapeHtmlAmpLast(text) ==
  ReplaceChar(
    ReplaceChar(
      ReplaceChar(text, "<", <<"&", "l", "t", ";">>),
      ">", <<"&", "g", "t", ";">>),
    "&", <<"&", "a", "m", "p", ";">>)

escapeHtml(text) ==
  ReplaceChar(
    ReplaceChar(
      ReplaceChar(text, "&", <<"&", "a", "m", "p", ";">>),
      "<", <<"&", "l", "t", ";">>),
    ">", <<"&", "g", "t", ";">>)

----------------------------------------------------------------------------
(* The placeholder ledger and the passes (lines 102-143) *)

DigitChar(n) ==
  CASE n = 0 -> "0" [] n = 1 -> "1" [] n = 2 -> "2" [] n = 3 -> "3" [] n = 4 -> "4"
    [] n = 5 -> "5" [] n = 6 -> "6" [] n = 7 -> "7" [] n = 8 -> "8" [] n = 9 -> "9"

DigitValue(c) == CHOOSE n \in 0..9 : DigitChar(n) = c

\* `${idx}`: the decimal digits of idx
RECURSIVE ToDigits(_)
ToDigits(n) ==
  IF n < 10 THEN <<DigitChar(n)>> ELSE ToDigits(n \div 10) \o <<DigitChar(n % 10)>>

\* parseInt(idx, 10) on a string of digits
RECURSIVE parseInt(_)
parseInt(s) ==
  IF s = <<>> THEN 0
  ELSE 10 * parseInt(SubSeq(s, 1, Len(s) - 1)) + DigitValue(s[Len(s)])

\* `\x00${idx}\x00` (line 107)
Sentinel(idx) == <<NUL>> \o ToDigits(idx) \o <<NUL>>

SpanOpen(className) ==
  <<"<", "s", "p", "a", "n", " ", "c", "l", "a", "s", "s", "=", "\"", "h", "l", "-">>
    \o className \o <<"\"", ">">>

SpanClose == <<"<", "/", "s", "p", "a", "n", ">">>

\* `<span class="hl-${className}">${content}</span>` (line 106)
SpanOf(content, className) == SpanOpen(className) \o content \o SpanClose

\* the class names the passes hand to placeholder (lines 112-139)
ClassName ==
  [comment |-> <<"c", "o", "m", "m", "e", "n", "t">>,
   string |-> <<"s", "t", "r", "i", "n", "g">>,
   number |-> <<"n", "u", "m", "b", "e", "r">>,
   function |-> <<"f", "u", "n", "c", "t", "i", "o", "n">>,
   keyword |-> <<"k", "e", "y", "w", "o", "r", "d">>,
   type |-> <<"t", "y", "p", "e">>,
   builtin |-> <<"b", "u", "i", "l", "t", "i", "n">>]

\* String(undefined): what replace inserts for a callback that returns undefined
UndefinedText == <<"u", "n", "d", "e", "f", "i", "n", "e", "d">>

\* a pattern: a named regular expression, or the alternation built from a word list
Regex(name) == [re |-> name, words |-> <<>>]
WordsRegex(words) == [re |-> "wordList", words |-> words]

MatchAt(pat, t, i) ==
  IF pat.re = "wordList" THEN wordList(t, i, pat.words) ELSE MatchEnd(pat.re, t, i)

\* the matches of one global scan, left to right, as <<start, end>> pairs: the
\* scan resumes where the last match ended
RECURSIVE Scan(_, _, _)
Scan(pat, t, i) ==
  IF i > Len(t) THEN <<>>
  ELSE LET e == MatchAt(pat, t, i)
       IN  IF e > i THEN <<<<i, e>>>> \o Scan(pat, t, e) ELSE Scan(pat, t, i + 1)

\* String.prototype.replace: t with its k-th match replaced by repl[k]
RECURSIVE Splice(_, _, _, _, _)
Splice(t, ms, repl, k, from) ==
  IF k > Len(ms) THEN SubSeq(t, from, Len(t))
  ELSE SubSeq(t, from, ms[k][1] - 1) \o repl[k] \o Splice(t, ms, repl, k + 1, ms[k][2])

Matched(t, m) == SubSeq(t, m[1], m[2] - 1)

\* the RegExp objects the rule table holds; the word-list patterns are built anew
\* in every call (lines 128, 133, 138) and the restoration pattern is a literal
SharedRegex ==
  {"jsStrings", "pyStrings", "bashStrings", "jsonStrings", "cssStrings", "jsComments",
   "hashComments", "cssComments", "htmlComments", "jsNumbers", "pyNumbers",
   "bashNumbers", "jsonNumbers", "cssNumbers", "identCall"}

\* a replace that scans like repeated exec calls: from the lastIndex it finds, leaving
\* lastIndex at the end of its last match
StickyScan(pat, t, li) ==
  LET ms == Scan(pat, t, li + 1)
  IN  [ms |-> ms, lastIndex |-> IF ms = <<>> THEN 0 ELSE ms[Len(ms)][2] - 1]

\* String.prototype.replace with a global pattern whose lastIndex is li: lastIndex is
\* set to 0 before the scan, and the exec that finds no further match leaves it 0
GlobalScan(pat, t, li) == [ms |-> Scan(pat, t, 1), lastIndex |-> 0]

\* the lastIndex a pattern object carries into a replace
LastIndexOf(pat) == IF pat.re \in SharedRegex THEN lastIndex[pat.re] ELSE 0

\* lastIndex after a replace that left li in the pattern object
LastIndexAfter(pat, li) ==
  IF pat.re \in SharedRegex THEN [lastIndex EXCEPT ![pat.re] = li] ELSE lastIndex

Zeros(n) == [k \in 1..n |-> 0]

\* AfterPass with the strings and numbers statements in exchanged places
AfterPassNumbersFirst(p) ==
  CASE p = "comments"  -> "numbers"
    [] p = "numbers"   -> "strings"
    [] p = "strings"   -> "functions"
    [] p = "functions" -> "keywords"
    [] p = "keywords"  -> "types"
    [] p = "types"     -> "builtins"
    [] p = "builtins"  -> "restore"

\* AfterPass with the word lists ahead of the functions statement
AfterPassWordsFirst(p) ==
  CASE p = "comments"  -> "strings"
    [] p = "strings"   -> "numbers"
    [] p = "numbers"   -> "keywords"
    [] p = "keywords"  -> "types"
    [] p = "types"     -> "builtins"
    [] p = "builtins"  -> "functions"
    [] p = "functions" -> "restore"

\* AfterPass with the types statement followed by the keywords statement again
AfterPassAgain(p) ==
  CASE p = "comments"  -> "strings"
    [] p = "strings"   -> "numbers"
    [] p = "numbers"   -> "functions"
    [] p = "functions" -> "keywords"
    [] p = "keywords"  -> "types"
    [] p = "types"     -> "keywords"
    [] p = "builtins"  -> "restore"

\* the statement after each pass, in program order (lines 110-143)
AfterPass(p) ==
  CASE p = "comments"  -> "strings"
    [] p = "strings"   -> "numbers"
    [] p = "numbers"   -> "functions"
    [] p = "functions" -> "keywords"
    [] p = "keywords"  -> "types"
    [] p = "types"     -> "builtins"
    [] p = "builtins"  -> "restore"

\* Replace with a callback that hands the match back in place of the sentinel
ReplaceKeepsMatch(pat, className) ==
  LET sc == GlobalScan(pat, result, LastIndexOf(pat))
      ms == sc.ms
      n0 == Len(placeholders)
  IN  /\ result' = result
      /\ origin' = origin
      /\ lastIndex' = LastIndexAfter(pat, sc.lastIndex)
      /\ placeholders' = placeholders \o
                           [k \in 1..Len(ms) |-> SpanOf(Matched(result, ms[k]), className)]
      /\ log' = log \o [k \in 1..Len(ms) |->
                          [cls |-> className, idx |-> n0 + k - 1,
                           src |-> Matched(origin, ms[k])]]

\* result = result.replace(pat, (m) => placeholder(m, className))
Replace(pat, className) ==
  LET sc == GlobalScan(pat, result, LastIndexOf(pat))
      ms == sc.ms
      n0 == Len(placeholders)
  IN  /\ lastIndex' = LastIndexAfter(pat, sc.lastIndex)
      /\ result' = Splice(result, ms, [k \in 1..Len(ms) |-> Sentinel(n0 + k - 1)], 1, 1)
      /\ origin' = Splice(origin, ms,
                          [k \in 1..Len(ms) |-> Zeros(Len(Sentinel(n0 + k - 1)))], 1, 1)
      /\ placeholders' = placeholders \o
                           [k \in 1..Len(ms) |-> SpanOf(Matched(result, ms[k]), className)]
      /\ log' = log \o [k \in 1..Len(ms) |->
                          [cls |-> className, idx |-> n0 + k - 1,
                           src |-> Matched(origin, ms[k])]]

\* PatternPass without its test of the field: an absent field runs the functions
\* pattern
PatternPassUnguarded(field, className) ==
  /\ pc = field
  /\ IF field \in DOMAIN rules
       THEN Replace(Regex(rules[field]), className)
       ELSE Replace(Regex("identCall"), className)
  /\ pc' = AfterPass(field)
  /\ UNCHANGED <<code, language, rules, restored, outside>>

\* if (rules.<field>) { result = result.replace(...) } for a pattern field
PatternPass(field, className) ==
  /\ pc = field
  /\ IF field \in DOMAIN rules
       THEN Replace(Regex(rules[field]), className)
       ELSE UNCHANGED <<result, origin, placeholders, log, lastIndex>>
  /\ pc' = AfterPass(field)
  /\ UNCHANGED <<code, language, rules, restored, outside>>

\* the same for a word-list field, whose pattern is built from the list
WordListPass(field, className) ==
  /\ pc = field
  /\ IF field \in DOMAIN rules
       THEN Replace(WordsRegex(rules[field]), className)
       ELSE UNCHANGED <<result, origin, placeholders, log, lastIndex>>
  /\ pc' = AfterPass(field)
  /\ UNCHANGED <<code, language, rules, restored, outside>>

----------------------------------------------------------------------------
(* The page after init() (main.ts lines 523-740), its state object (state.ts)
   and the theme (theme.ts) *)

\* state.currentSession === null
Null == -1

\* the values localStorage may hold under STORAGE_KEY: none, a theme, anything else
StoredValues == {"missing", "light", "dark", "system", "blue"}

\* theme.ts lines 18-24
getStoredTheme(stored) ==
  IF stored = "light" \/ stored = "dark" \/ stored = "system" THEN stored ELSE "system"

\* theme.ts lines 10-15
getEffectiveTheme(theme, dark) ==
  IF theme = "system" THEN (IF dark THEN "dark" ELSE "light") ELSE theme

\* the ternary of cycleTheme with its two tests exchanged
NextThemeReversed(current) ==
  IF current = "light" THEN "dark" ELSE IF current = "dark" THEN "system" ELSE "light"

\* theme.ts line 42
NextTheme(current) ==
  IF current = "dark" THEN "light" ELSE IF current = "light" THEN "system" ELSE "dark"

\* theme.ts lines 61-70
getThemeLabel(theme) ==
  CASE theme = "light" -> "Light" [] theme = "dark" -> "Dark" [] theme = "system" -> "System"

\* main.ts lines 418-425: the icon and the label updateThemeIcon sets
ThemeIcon(stored) ==
  LET theme == getStoredTheme(stored)
  IN  [icon |-> IF theme = "light" THEN "sun" ELSE IF theme = "dark" THEN "moon"
                ELSE "monitor",
       label |-> getThemeLabel(theme)]

\* session.path of a session read from a local file (parseJSONL gives it none)
NoPath == 0

\* a request of the server in flight: the api.ts function, the handler that awaits
\* it, and the locals that handler holds (live: the session object it holds is
\* still an element of state.sessions)
Task(fn, then, idx, path) ==
  [fn |-> fn, then |-> then, idx |-> idx, path |-> path, live |-> TRUE]

\* render.ts renderMessages: what the message pane shows for the state st
Pane(st) ==
  IF st.currentSession = Null \/ st.currentSession >= Len(st.sessions)
    THEN [kind |-> "select"]
    ELSE [kind |-> "messages", session |-> st.sessions[st.currentSession + 1],
          thinking |-> st.showThinking, tools |-> st.showTools,
          redact |-> st.redactSecrets]

\* the page when init() has run its synchronous part, with stored under
\* STORAGE_KEY, the system preference dark and the page served by the server or not
PageLoaded(stored, dark, server) ==
  /\ state = [sessions |-> <<>>, currentSession |-> Null, showThinking |-> TRUE,
              showTools |-> FALSE, redactSecrets |-> TRUE, isServerMode |-> server]
  /\ dom = [dataTheme |-> getEffectiveTheme(getStoredTheme(stored), dark),
            themeToggle |-> ThemeIcon(stored),
            toggleThinking |-> "markup", toggleTools |-> "markup",
            toggleRedact |-> "markup",
            messagesContainer |-> [kind |-> "markup"],
            sessionList |-> [kind |-> IF server THEN "loading" ELSE "markup"],
            sidebar |-> "closed",
            deleteModal |-> FALSE, deleteSessionName |-> NoPath,
            exportModal |-> FALSE, loadBackupModal |-> FALSE,
            backupList |-> "markup", backupSessions |-> "markup",
            backupAllBtn |-> "Backup"]
  /\ localStorage = stored
  /\ prefersDark = dark
  /\ tasks = IF server THEN {Task("loadSessions", "select0", 0, NoPath)} ELSE {}
  /\ calls = [settled |-> None]
  /\ toasted = None
  /\ cycled = [raw |-> stored, returned |-> <<>>]
  /\ keydown = None
  /\ format = [stage |-> "none", codeBlockId |-> 0]

\* the themeToggle click handler (main.ts lines 604-608): cycleTheme (theme.ts
\* lines 40-45), updateThemeIcon, toastInfo
ThemeToggleClick ==
  LET current == getStoredTheme(localStorage)
      next == NextTheme(current)
  IN  /\ localStorage' = next
      /\ dom' = [dom EXCEPT !.dataTheme = getEffectiveTheme(next, prefersDark),
                            !.themeToggle = ThemeIcon(next)]
      /\ toasted' = [type |-> "info", text |-> <<"Theme: ", getThemeLabel(next)>>]
      /\ cycled' = IF Len(cycled.returned) < 3
                     THEN [cycled EXCEPT !.returned = Append(@, next)]
                     ELSE [raw |-> cycled.returned[1],
                           returned |-> Append(Tail(cycled.returned), next)]
      /\ UNCHANGED <<hvars, guess, memo, keydown, format, state, prefersDark, tasks, calls>>

\* the change listener of initTheme (theme.ts lines 53-57)
PreferenceChange ==
  /\ prefersDark' = ~prefersDark
  /\ dom' = IF getStoredTheme(localStorage) = "system"
              THEN [dom EXCEPT !.dataTheme = getEffectiveTheme("system", prefersDark')]
              ELSE dom
  /\ UNCHANGED <<hvars, guess, memo, keydown, format, state, localStorage, tasks, calls, toasted, cycled>>

\* the stored value is changed from outside the page (another tab, cleared site
\* data); the page has no storage listener
StorageEdit(v) ==
  /\ v # localStorage
  /\ localStorage' = v
  /\ cycled' = [raw |-> v, returned |-> <<>>]
  /\ UNCHANGED <<hvars, guess, memo, keydown, format, state, dom, prefersDark, tasks, calls, toasted>>

\* the click handlers of the three toggle buttons (main.ts lines 576-598) with
\* toggleThinking, toggleTools, toggleRedact (state.ts lines 27-42)
ToggleThinkingClick ==
  /\ state' = [state EXCEPT !.showThinking = ~@]
  /\ dom' = [dom EXCEPT !.toggleThinking = state'.showThinking,
                        !.messagesContainer = Pane(state')]
  /\ UNCHANGED <<hvars, guess, memo, keydown, format, localStorage, prefersDark, tasks, calls, toasted, cycled>>

ToggleToolsClick ==
  /\ state' = [state EXCEPT !.showTools = ~@]
  /\ dom' = [dom EXCEPT !.toggleTools = state'.showTools,
                        !.messagesContainer = Pane(state')]
  /\ UNCHANGED <<hvars, guess, memo, keydown, format, localStorage, prefersDark, tasks, calls, toasted, cycled>>

ToggleRedactClick ==
  /\ state' = [state EXCEPT !.redactSecrets = ~@]
  /\ dom' = [dom EXCEPT !.toggleRedact = state'.redactSecrets,
                        !.messagesContainer = Pane(state')]
  /\ UNCHANGED <<hvars, guess, memo, keydown, format, localStorage, prefersDark, tasks, calls, toasted, cycled>>

----------------------------------------------------------------------------
(* The inputs of the calls *)

MaxLen == 2

\* the pieces the bounded inputs are built from
Atoms ==
  {<<"\"">>, <<"#">>, <<"/", "/">>, <<"i", "f">>,
   <<"t", "r", "u", "e">>, <<"1">>, <<"(">>, <<"<">>, <<"\n">>, <<NUL>>}

RECURSIVE Flatten(_)
Flatten(ss) == IF ss = <<>> THEN <<>> ELSE Head(ss) \o Flatten(Tail(ss))

\* the concrete case of the specification
S_const ==
  <<"c","o","n","s","t"," ","x"," ","="," ","\"","f","u","n","c","t","i","o","n","(",")",
    " ","{","}","\"",";">>

\* text that has the shape of a sentinel
S_sentinel ==
  <<NUL,"0",NUL>>

\* text that has the shape of the engine's own markup
S_span ==
  <<"<","s","p","a","n"," ","c","l","a","s","s","=","\"","h","l","-","k","e","y","w","o",
    "r","d","\"",">","i","f","<","/","s","p","a","n",">">>

\* one snippet with a match for every javascript pass
S_mix ==
  <<"f","(","\"","a","\"",","," ","1",")",";"," ","i","f"," ","(","x",")"," ","r","e","t",
    "u","r","n"," ","t","r","u","e",";"," ","M","a","t","h"," ","/","/"," ","i","f">>

\* the three characters the escaper replaces, and text that is an entity already
S_entities ==
  <<"a"," ","&","&"," ","b"," ","<"," ","c"," ",">"," ","&","a","m","p",";">>

\* a string literal around text that has the shape of a sentinel
S_nested ==
  <<"\"",NUL,"0",NUL,"\"">>

\* string literals around a comment marker
S_url ==
  <<"\"","h","t","t","p",":","/","/","x","\"">>

S_hash ==
  <<"\"","a","#","b","\"">>

\* a comment of html
S_comment ==
  <<"<","!","-","-"," ","\"","x","\""," ","-","-",">">>

Samples ==
  {S_const, S_sentinel, S_span, S_mix, S_entities, S_nested, S_url, S_hash, S_comment}

Codes == {Flatten(a) : a \in UNION {[1..n -> Atoms] : n \in 0..MaxLen}} \cup Samples

Languages ==
  {Undefined, <<>>, Key.javascript, <<"J", "S">>, Key.typescript, Key.python, Key.bash,
   Key.json, Key.css, Key.html, <<"r", "u", "s", "t">>,
   <<"c", "o", "n", "s", "t", "r", "u", "c", "t", "o", "r">>}

----------------------------------------------------------------------------
(* One call of highlight, statement by statement *)

Init ==
  /\ pc = "idle"
  /\ code = <<>>
  /\ language = Undefined
  /\ rules = [kind |-> "null"]
  /\ result = <<>>
  /\ placeholders = <<>>
  /\ origin = <<>>
  /\ log = <<>>
  /\ restored = <<>>
  /\ lastIndex = [r \in SharedRegex |-> 0]
  /\ guess = None
  /\ memo = None
  /\ PageLoaded("missing", FALSE, TRUE)

\* Highlight going on at the strings statement, the comments statement left out
HighlightFromStrings(c, l) ==
  /\ pc = "idle"
  /\ code' = c
  /\ language' = l
  /\ rules' = LookupRules(LangOf(l))
  /\ result' = escapeHtml(c)
  /\ origin' = [k \in 1..Len(escapeHtml(c)) |-> k]
  /\ placeholders' = <<>>
  /\ log' = <<>>
  /\ restored' = <<>>
  /\ pc' = IF LookupRules(LangOf(l)).kind = "null" THEN "done" ELSE "strings"
  /\ UNCHANGED <<lastIndex, outside>>

\* lines 91-108: look the rules up, escape, return early when there are none
Highlight(c, l) ==
  /\ pc = "idle"
  /\ code' = c
  /\ language' = l
  /\ rules' = LookupRules(LangOf(l))
  /\ result' = escapeHtml(c)
  /\ origin' = [k \in 1..Len(escapeHtml(c)) |-> k]
  /\ placeholders' = <<>>
  /\ log' = <<>>
  /\ restored' = <<>>
  /\ pc' = IF LookupRules(LangOf(l)).kind = "null" THEN "done" ELSE "comments"
  /\ UNCHANGED <<lastIndex, outside>>

CommentsPass == PatternPass("comments", ClassName.comment)
StringsPass == PatternPass("strings", ClassName.string)
NumbersPass == PatternPass("numbers", ClassName.number)
FunctionsPass == PatternPass("functions", ClassName.function)
KeywordsPass == WordListPass("keywords", ClassName.keyword)
TypesPass == WordListPass("types", ClassName.type)
BuiltinsPass == WordListPass("builtins", ClassName.builtin)

\* placeholders[parseInt(idx, 10)] for the k-th sentinel of the scan
Lookup(ms, k) ==
  LET idx == parseInt(SubSeq(result, ms[k][1] + 1, ms[k][2] - 2))
  IN  IF idx < Len(placeholders) THEN placeholders[idx + 1] ELSE UndefinedText

LookupOrigin(ms, k) ==
  LET idx == parseInt(SubSeq(result, ms[k][1] + 1, ms[k][2] - 2))
  IN  IF idx < Len(placeholders)
        THEN Zeros(Len(SpanOpen(log[idx + 1].cls))) \o log[idx + 1].src
               \o Zeros(Len(SpanClose))
        ELSE Zeros(Len(UndefinedText))

\* Restore repeated on its own output
RestoreRescanning ==
  /\ pc = "restore"
  /\ LET At(t, m) ==
           LET idx == parseInt(SubSeq(t, m[1] + 1, m[2] - 2))
           IN  IF idx < Len(placeholders) THEN placeholders[idx + 1] ELSE UndefinedText
         ms == Scan(Regex("sentinelRe"), result, 1)
         once == Splice(result, ms, [k \in 1..Len(ms) |-> At(result, ms[k])], 1, 1)
         ms2 == Scan(Regex("sentinelRe"), once, 1)
     IN  /\ result' = Splice(once, ms2, [k \in 1..Len(ms2) |-> At(once, ms2[k])], 1, 1)
         /\ origin' = Zeros(Len(result'))
         /\ restored' = [k \in 1..Len(ms) |->
                           [idx |-> parseInt(SubSeq(result, ms[k][1] + 1, ms[k][2] - 2)),
                            src |-> Matched(origin, ms[k])]]
  /\ pc' = "done"
  /\ UNCHANGED <<code, language, rules, placeholders, log, lastIndex, outside>>

\* line 143: result = result.replace(/\x00(\d+)\x00/g, ...)
Restore ==
  /\ pc = "restore"
  /\ LET ms == Scan(Regex("sentinelRe"), result, 1)
     IN  /\ result' = Splice(result, ms, [k \in 1..Len(ms) |-> Lookup(ms, k)], 1, 1)
         /\ origin' = Splice(origin, ms, [k \in 1..Len(ms) |-> LookupOrigin(ms, k)], 1, 1)
         /\ restored' = [k \in 1..Len(ms) |->
                           [idx |-> parseInt(SubSeq(result, ms[k][1] + 1, ms[k][2] - 2)),
                            src |-> Matched(origin, ms[k])]]
  /\ pc' = "done"
  /\ UNCHANGED <<code, language, rules, placeholders, log, lastIndex, outside>>

\* the call has returned result; its ledger and working text are discarded
Return ==
  /\ pc = "done"
  /\ pc' = "idle"
  /\ code' = <<>>
  /\ language' = Undefined
  /\ rules' = [kind |-> "null"]
  /\ result' = <<>>
  /\ placeholders' = <<>>
  /\ origin' = <<>>
  /\ log' = <<>>
  /\ restored' = <<>>
  /\ UNCHANGED <<lastIndex, outside>>

Next ==
  \/ \E c \in Codes, l \in Languages : Highlight(c, l)
  \/ CommentsPass
  \/ StringsPass
  \/ NumbersPass
  \/ FunctionsPass
  \/ KeywordsPass
  \/ TypesPass
  \/ BuiltinsPass
  \/ Restore
  \/ Return

Spec == Init /\ [][Next]_vars

\* the statement the call stands before runs, and control moves on
Proceeds ==
  /\ pc \notin {"idle", "done"}
  /\ pc' = IF pc = "restore" THEN "done" ELSE AfterPass(pc)

\* the call runs on one thread, which does not stop within the call
SpecTerm == Spec /\ WF_pc(Proceeds)

----------------------------------------------------------------------------
(* detectLanguage (lines 149-159) *)

\* String.prototype.includes, startsWith and endsWith
includes(t, s) == \E q \in 1..(Len(t) - Len(s) + 1) : SubSeq(t, q, q + Len(s) - 1) = s

startsWith(t, s) == Len(s) <= Len(t) /\ SubSeq(t, 1, Len(s)) = s

\* endsWith comparing one position too early
endsWithOffByOne(t, s) ==
  Len(s) < Len(t) /\ SubSeq(t, Len(t) - Len(s), Len(t) - 1) = s

endsWith(t, s) == Len(s) <= Len(t) /\ SubSeq(t, Len(t) - Len(s) + 1, Len(t)) = s

\* the texts the heuristics look for
Probe ==
  [binBash |-> <<"#", "!", "/", "b", "i", "n", "/", "b", "a", "s", "h">>,
   binSh |-> <<"#", "!", "/", "b", "i", "n", "/", "s", "h">>,
   envPython |-> <<"#", "!", "/", "u", "s", "r", "/", "b", "i", "n", "/", "e", "n", "v", " ", "p", "y", "t", "h", "o", "n">>,
   def_ |-> <<"d", "e", "f", " ">>,
   colon |-> <<":">>,
   function_ |-> <<"f", "u", "n", "c", "t", "i", "o", "n", " ">>,
   arrow |-> <<"=", ">">>,
   interface_ |-> <<"i", "n", "t", "e", "r", "f", "a", "c", "e", " ">>,
   colonString |-> <<":", " ", "s", "t", "r", "i", "n", "g">>,
   doctype |-> <<"<", "!", "D", "O", "C", "T", "Y", "P", "E">>,
   htmlTag |-> <<"<", "h", "t", "m", "l">>]

\* detectLanguage with the javascript test moved before the python tests
detectLanguageJsFirst(c) ==
  IF includes(c, Probe.binBash) \/ includes(c, Probe.binSh) THEN Key.bash
  ELSE IF includes(c, Probe.function_) \/ includes(c, Probe.arrow) THEN Key.javascript
  ELSE IF includes(c, Probe.envPython) THEN Key.python
  ELSE IF includes(c, Probe.def_) /\ includes(c, Probe.colon) THEN Key.python
  ELSE IF includes(c, Probe.interface_) \/ includes(c, Probe.colonString) THEN Key.typescript
  ELSE IF startsWith(c, <<"{">>) /\ endsWith(c, <<"}">>) THEN Key.json
  ELSE IF includes(c, Probe.doctype) \/ includes(c, Probe.htmlTag) THEN Key.html
  ELSE Undefined

detectLanguage(c) ==
  IF includes(c, Probe.binBash) \/ includes(c, Probe.binSh) THEN Key.bash
  ELSE IF includes(c, Probe.envPython) THEN Key.python
  ELSE IF includes(c, Probe.def_) /\ includes(c, Probe.colon) THEN Key.python
  ELSE IF includes(c, Probe.function_) \/ includes(c, Probe.arrow) THEN Key.javascript
  ELSE IF includes(c, Probe.interface_) \/ includes(c, Probe.colonString) THEN Key.typescript
  ELSE IF startsWith(c, <<"{">>) /\ endsWith(c, <<"}">>) THEN Key.json
  ELSE IF includes(c, Probe.doctype) \/ includes(c, Probe.htmlTag) THEN Key.html
  ELSE Undefined

\* the most pieces a bounded detectLanguage input is built from
MaxParts == 2

DetectAtoms ==
  {Probe.binBash, Probe.binSh, Probe.envPython, Probe.def_, Probe.colon, Probe.function_, Probe.arrow, Probe.interface_,
   Probe.colonString, <<"{">>, <<"}">>, Probe.doctype, Probe.htmlTag, <<"\n">>, <<"x">>}

\* the concrete cases of the specification
S_shebang == <<"#", "!", "/", "b", "i", "n", "/", "b", "a", "s", "h", "\n", "e", "c", "h", "o", " ", "h", "i">>
S_json == <<"{", "\"", "a", "\"", ":", "1", "}">>

DetectCodes ==
  {Flatten(a) : a \in UNION {[1..n -> DetectAtoms] : n \in 0..MaxParts}}
    \cup {S_shebang, S_json}

\* a call of detectLanguage, and its return
Detect(c) ==
  /\ pc = "idle"
  /\ guess = None
  /\ guess' = [fn |-> "detectLanguage", code |-> c, out |-> detectLanguage(c)]
  /\ UNCHANGED <<hvars, memo, pvars>>

DetectReturn ==
  /\ guess # None
  /\ guess' = None
  /\ UNCHANGED <<hvars, memo, pvars>>

NextDetect ==
  \/ \E c \in DetectCodes : Detect(c)
  \/ DetectReturn

SpecDetect == Init /\ [][NextDetect]_vars

----------------------------------------------------------------------------
(* Calls one after another: what one call can leave behind for the next is the
   lastIndex of the rule table's RegExp objects; the ledger and the working
   text are locals (lines 95, 103) *)

CallCodes == {S_const, S_mix, <<"#", "i", "f">>}

CallLanguages ==
  {Key.javascript, Key.js, <<"J", "S">>, Key.typescript, Key.ts, Key.python, Key.py, <<"P", "y">>,
   Key.bash, Key.sh, Key.shell, Key.zsh, <<"Z", "S", "H">>}

CallDetectCodes == {S_shebang, S_json}

\* the call that has just returned
ThisCall ==
  IF guess # None
    THEN [fn |-> "detectLanguage", code |-> guess.code, language |-> Undefined,
          out |-> guess.out, between |-> FALSE]
    ELSE [fn |-> "highlight", code |-> code, language |-> language, out |-> result,
          between |-> FALSE]

\* control is back at the caller, who keeps the earlier call in mind (and has now
\* seen another call since then) or the one that has just returned
ReturnToCaller(keep) ==
  /\ pc = "done" \/ guess # None
  /\ memo' = IF ~keep THEN ThisCall
             ELSE IF memo = None THEN None
             ELSE [memo EXCEPT !.between = TRUE]
  /\ guess' = None
  /\ pc' = "idle"
  /\ code' = <<>>
  /\ language' = Undefined
  /\ rules' = [kind |-> "null"]
  /\ result' = <<>>
  /\ placeholders' = <<>>
  /\ origin' = <<>>
  /\ log' = <<>>
  /\ restored' = <<>>
  /\ UNCHANGED <<lastIndex, pvars>>

NextCalls ==
  \/ \E c \in CallCodes, l \in CallLanguages : guess = None /\ Highlight(c, l)
  \/ CommentsPass
  \/ StringsPass
  \/ NumbersPass
  \/ FunctionsPass
  \/ KeywordsPass
  \/ TypesPass
  \/ BuiltinsPass
  \/ Restore
  \/ \E c \in CallDetectCodes : Detect(c)
  \/ \E keep \in BOOLEAN : ReturnToCaller(keep)

SpecCalls == Init /\ [][NextCalls]_vars

----------------------------------------------------------------------------
(* The settings of the page: theme and toggles *)

HighlightIdle ==
  /\ pc = "idle"
  /\ code = <<>>
  /\ language = Undefined
  /\ rules = [kind |-> "null"]
  /\ result = <<>>
  /\ placeholders = <<>>
  /\ origin = <<>>
  /\ log = <<>>
  /\ restored = <<>>
  /\ lastIndex = [r \in SharedRegex |-> 0]
  /\ guess = None
  /\ memo = None

InitSettings ==
  /\ HighlightIdle
  /\ \E stored \in StoredValues, dark \in BOOLEAN : PageLoaded(stored, dark, FALSE)

NextSettings ==
  \/ ThemeToggleClick
  \/ PreferenceChange
  \/ \E v \in StoredValues : StorageEdit(v)
  \/ ToggleThinkingClick
  \/ ToggleToolsClick
  \/ ToggleRedactClick

SpecSettings == InitSettings /\ [][NextSettings]_vars

----------------------------------------------------------------------------
(* The session list, the server and the delete dialog (main.ts, api.ts).  A
   handler runs up to its next await of a request; the request is a task, and
   the rest of the handler runs when the task settles. *)

MaxSessions == 2
MaxTasks == 1

\* the requests in flight at once where the loads of sessions overlap
MaxLoads == 2

Paths == 1..MaxSessions

\* how a request can end: a reply with data, a reply with nothing in it, a
\* reply whose JSON carries an error field, fetch rejecting, or a body that is
\* not JSON
Outcomes == {"ok", "empty", "errorField", "networkFail", "jsonFail"}

RECURSIVE Ascending(_)
Ascending(S) ==
  IF S = {} THEN <<>>
  ELSE LET m == CHOOSE x \in S : \A y \in S : x <= y
       IN <<m>> \o Ascending(S \ {m})

\* the session lists the server can answer with
ServerLists == {Ascending(S) : S \in SUBSET Paths} \ {<<>>}

\* api.ts: how the promise of each function settles for an outcome of its request
api(fn, outcome) ==
  LET failed == outcome \in {"networkFail", "jsonFail"}
  IN CASE fn \in {"loadSessions", "loadSession"} ->
            [settled |-> "resolved", null |-> failed \/ outcome = "errorField",
             error |-> FALSE]
       [] fn = "deleteSession" ->
            [settled |-> IF outcome = "jsonFail" THEN "rejected" ELSE "resolved",
             null |-> FALSE,
             error |-> outcome \in {"errorField", "networkFail"}]
       [] OTHER ->
            [settled |-> IF failed THEN "rejected" ELSE "resolved",
             null |-> FALSE, error |-> outcome = "errorField"]

\* parser apiToSession: the session of a list item, its messages not yet loaded
apiToSession(path) == [path |-> path, messages |-> <<>>]

\* state.ts getCurrentSession, and whether it is a session rather than null
HasSession(st) ==
  st.currentSession # Null /\ st.currentSession < Len(st.sessions)

getCurrentSession(st) ==
  IF HasSession(st) THEN st.sessions[st.currentSession + 1]
  ELSE [path |-> NoPath, messages |-> <<>>]

\* render.ts renderSessionList
renderSessionList(st) ==
  IF st.sessions = <<>> THEN [kind |-> "empty"]
  ELSE [kind |-> "items", n |-> Len(st.sessions), active |-> st.currentSession]

\* Detached with every handler writing through its index into the new list
StillAttached(ts) == ts

\* the requests in flight once state.sessions is replaced: the session objects
\* their handlers hold are no longer in the list
Detached(ts) ==
  {IF t.fn = "loadSession" THEN [t EXCEPT !.live = FALSE] ELSE t : t \in ts}

\* the request req (none or one) leaves, the others being rest
Start(rest, req) == tasks' = rest \cup req

\* no more than n requests are in flight after the step
InFlight(n) == Cardinality(tasks') <= n

\* toast.ts: a toast of the type; the texts of these handlers' toasts are left out
Toast(type) == [type |-> type, text |-> <<>>]

\* the toast a handler shows once its selectSession has returned
ToastAfter(then, st) ==
  CASE then = "loaded" -> Toast("success")
    [] then = "viewing" -> Toast("info")
    [] OTHER -> toasted

\* selectSession(idx) from the state st and the document d, up to its await:
\* the state and document it leaves, and the request it waits for, if any
selectSession(st, d, idx, then) ==
  LET st1 == [st EXCEPT !.currentSession = idx]
      load == /\ idx < Len(st1.sessions)
              /\ st1.sessions[idx + 1].path # NoPath
              /\ st1.sessions[idx + 1].messages = <<>>
  IN [state |-> st1,
      dom |-> [d EXCEPT !.sessionList = renderSessionList(st1),
                        !.sidebar = "closed",
                        !.messagesContainer =
                           IF load THEN [kind |-> "loading"] ELSE Pane(st1)],
      request |-> IF load
                    THEN {Task("loadSession", then, idx, st1.sessions[idx + 1].path)}
                    ELSE {},
      toast |-> IF load THEN toasted ELSE ToastAfter(then, st1)]

\* a handler whose last step is selectSession(idx)
Selecting(st, d, idx, then, rest) ==
  LET sel == selectSession(st, d, idx, then)
  IN /\ state' = sel.state
     /\ dom' = sel.dom
     /\ toasted' = sel.toast
     /\ Start(rest, sel.request)

\* attachSessionListeners: a click on the item idx of the session list
SessionClick(idx) ==
  /\ dom.sessionList.kind = "items"
  /\ idx < dom.sessionList.n
  /\ Selecting(state, dom, idx, "none", tasks)
  /\ UNCHANGED <<hvars, guess, memo, keydown, format, calls, localStorage, prefersDark, cycled>>

\* navigateSession, from the shortcuts j and k
navigateSession(direction) ==
  LET newIndex ==
        IF state.currentSession = Null THEN 0
        ELSE IF direction = "prev"
          THEN IF state.currentSession - 1 > 0 THEN state.currentSession - 1 ELSE 0
          ELSE IF Len(state.sessions) - 1 < state.currentSession + 1
                 THEN Len(state.sessions) - 1
                 ELSE state.currentSession + 1
  IN /\ state.sessions # <<>>
     /\ newIndex # state.currentSession
     /\ Selecting(state, dom, newIndex, "none", tasks)
     /\ UNCHANGED <<hvars, guess, memo, keydown, format, calls, localStorage, prefersDark, cycled>>

\* loadFromServer up to its await
loadFromServer(d, then, rest) ==
  /\ dom' = [d EXCEPT !.sessionList = [kind |-> "loading"]]
  /\ Start(rest, {Task("loadSessions", then, 0, NoPath)})

\* the refresh button
RefreshClick ==
  /\ IF state.isServerMode
       THEN /\ loadFromServer(dom, "select0", tasks)
            /\ UNCHANGED toasted
       ELSE /\ toasted' = Toast("error")
            /\ UNCHANGED <<dom, tasks>>
  /\ UNCHANGED <<hvars, guess, memo, keydown, format, calls, state, localStorage, prefersDark, cycled>>

\* loadSessions settles: the rest of loadFromServer, then the rest of the
\* handler that awaited it (init and the refresh button, the confirm button of
\* the delete dialog, the restore button)
LoadSessionsSettles(t, outcome, list) ==
  LET sessions == IF outcome = "ok" THEN list ELSE <<>>
      loaded == ~api(t.fn, outcome).null /\ sessions # <<>>
      st1 == IF loaded
               THEN [state EXCEPT
                       !.sessions = [k \in 1..Len(sessions) |-> apiToSession(sessions[k])]]
               ELSE state
      d1 == [dom EXCEPT !.sessionList = IF loaded THEN renderSessionList(st1)
                                         ELSE [kind |-> "notfound"]]
      rest == IF loaded THEN Detached(tasks \ {t}) ELSE tasks \ {t}
      select == IF t.then = "afterDelete" THEN st1.sessions # <<>>
                ELSE t.then = "select0" /\ loaded
  IN /\ t \in tasks
     /\ t.fn = "loadSessions"
     /\ IF select
          THEN Selecting(st1, d1, 0, "none", rest)
          ELSE /\ state' = st1
               /\ dom' = IF t.then = "afterDelete"
                           THEN [d1 EXCEPT !.messagesContainer = Pane(st1)]
                           ELSE d1
               /\ Start(rest, {})
               /\ UNCHANGED toasted
     /\ UNCHANGED <<hvars, guess, memo, keydown, format, calls, localStorage, prefersDark, cycled>>

\* loadSession settles: the rest of selectSession, then of the handler that
\* awaited it
LoadSessionSettles(t, outcome) ==
  LET messages == IF outcome = "ok" THEN <<t.path>> ELSE <<>>
      st1 == IF ~api(t.fn, outcome).null /\ t.live
               THEN [state EXCEPT !.sessions[t.idx + 1].messages = messages]
               ELSE state
  IN /\ t \in tasks
     /\ t.fn = "loadSession"
     /\ state' = st1
     /\ dom' = [dom EXCEPT !.messagesContainer = Pane(st1)]
     /\ toasted' = ToastAfter(t.then, st1)
     /\ Start(tasks \ {t}, {})
     /\ UNCHANGED <<hvars, guess, memo, keydown, format, calls, localStorage, prefersDark, cycled>>

\* handleFileInput once every file.text() has resolved, n of the files holding
\* messages: from the file picker or a drop on the page
handleFileInput(n) ==
  LET st1 == [state EXCEPT
                !.sessions = [k \in 1..n |-> [path |-> NoPath, messages |-> <<NoPath>>]]]
      d1 == [dom EXCEPT !.sessionList = renderSessionList(st1)]
  IN /\ IF n > 0
          THEN Selecting(st1, d1, 0, "loaded", Detached(tasks))
          ELSE /\ state' = st1
               /\ dom' = d1
               /\ Start(Detached(tasks), {})
               /\ UNCHANGED toasted
     /\ UNCHANGED <<hvars, guess, memo, keydown, format, calls, localStorage, prefersDark, cycled>>

\* the delete button of the header
DeleteBtnClick ==
  /\ IF ~HasSession(state)
       THEN /\ toasted' = Toast("error")
            /\ UNCHANGED dom
       ELSE IF getCurrentSession(state).path = NoPath
         THEN /\ toasted' = Toast("error")
              /\ UNCHANGED dom
         ELSE /\ dom' = [dom EXCEPT !.deleteSessionName = getCurrentSession(state).path,
                                    !.deleteModal = TRUE]
              /\ UNCHANGED toasted
  /\ UNCHANGED <<hvars, guess, memo, keydown, format, calls, state, localStorage, prefersDark, tasks, cycled>>

\* the controls of a dialog can be used while the dialog has the class active
Shown(modal) == modal

\* the cancel button of the delete dialog, or a click on its backdrop
CancelDeleteClick ==
  /\ Shown(dom.deleteModal)
  /\ dom' = [dom EXCEPT !.deleteModal = FALSE]
  /\ UNCHANGED <<hvars, guess, memo, keydown, format, calls, state, localStorage, prefersDark, tasks, toasted, cycled>>

ConfirmDeleteUnchecked ==
  /\ Shown(dom.deleteModal)
  /\ Start(tasks, {Task("deleteSession", "confirm", 0, getCurrentSession(state).path)})
  /\ UNCHANGED <<hvars, guess, memo, keydown, format, calls, state, dom, localStorage, prefersDark, toasted, cycled>>

\* the confirm button of the delete dialog, up to its await
ConfirmDeleteClick ==
  /\ Shown(dom.deleteModal)
  /\ IF getCurrentSession(state).path = NoPath
       THEN /\ dom' = [dom EXCEPT !.deleteModal = FALSE]
            /\ UNCHANGED tasks
       ELSE /\ Start(tasks,
                     {Task("deleteSession", "confirm", 0, getCurrentSession(state).path)})
            /\ UNCHANGED dom
  /\ UNCHANGED <<hvars, guess, memo, keydown, format, calls, state, localStorage, prefersDark, toasted, cycled>>

\* deleteSession settles: the rest of the confirm handler.  When the promise
\* rejects the handler ends at its await.
DeleteSessionSettles(t, outcome) ==
  LET res == api(t.fn, outcome)
      d1 == [dom EXCEPT !.deleteModal = FALSE]
  IN /\ t \in tasks
     /\ t.fn = "deleteSession"
     /\ IF res.settled = "rejected"
          THEN /\ Start(tasks \ {t}, {})
               /\ UNCHANGED <<dom, toasted>>
          ELSE IF res.error
            THEN /\ dom' = d1
                 /\ toasted' = Toast("error")
                 /\ Start(tasks \ {t}, {})
            ELSE /\ toasted' = Toast("success")
                 /\ loadFromServer(d1, "afterDelete", tasks \ {t})
     /\ UNCHANGED <<hvars, guess, memo, keydown, format, calls, state, localStorage, prefersDark, cycled>>

\* the shortcut Escape
EscapeKey ==
  /\ dom' = [dom EXCEPT !.exportModal = FALSE, !.deleteModal = FALSE,
                        !.loadBackupModal = FALSE, !.sidebar = "closed"]
  /\ UNCHANGED <<hvars, guess, memo, keydown, format, calls, state, localStorage, prefersDark, tasks, toasted, cycled>>

\* handleBackup up to its await; a disabled button takes no click
BackupClick ==
  /\ dom.backupAllBtn = "Backup"
  /\ IF ~state.isServerMode
       THEN /\ toasted' = Toast("error")
            /\ UNCHANGED <<dom, tasks>>
       ELSE /\ dom' = [dom EXCEPT !.backupAllBtn = "Backing up..."]
            /\ Start(tasks, {Task("backupAll", "handleBackup", 0, NoPath)})
            /\ UNCHANGED toasted
  /\ UNCHANGED <<hvars, guess, memo, keydown, format, calls, state, localStorage, prefersDark, cycled>>

\* backupAll settles: the rest of handleBackup, whose try catches a rejection
BackupAllSettles(t, outcome) ==
  LET res == api(t.fn, outcome)
  IN /\ t \in tasks
     /\ t.fn = "backupAll"
     /\ toasted' = IF res.settled = "rejected"
                     THEN Toast("error")
                     ELSE IF res.error THEN Toast("error")
                     ELSE Toast("success")
     /\ dom' = [dom EXCEPT !.backupAllBtn = "Backup"]
     /\ Start(tasks \ {t}, {})
     /\ UNCHANGED <<hvars, guess, memo, keydown, format, calls, state, localStorage, prefersDark, cycled>>

\* the load-backup button, with renderBackupList up to its await
LoadBackupClick ==
  /\ IF ~state.isServerMode
       THEN /\ toasted' = Toast("error")
            /\ UNCHANGED <<dom, tasks>>
       ELSE /\ dom' = [dom EXCEPT !.loadBackupModal = TRUE,
                                  !.backupList = "loading",
                                  !.backupSessions = [kind |-> "hint"]]
            /\ Start(tasks, {Task("getBackups", "renderBackupList", 0, NoPath)})
            /\ UNCHANGED toasted
  /\ UNCHANGED <<hvars, guess, memo, keydown, format, calls, state, localStorage, prefersDark, cycled>>

\* getBackups settles: the rest of renderBackupList, whose try catches a rejection
GetBackupsSettles(t, outcome) ==
  /\ t \in tasks
  /\ t.fn = "getBackups"
  /\ dom' = [dom EXCEPT !.backupList =
               IF api(t.fn, outcome).settled = "rejected" THEN "failed"
               ELSE IF outcome = "ok" THEN "items" ELSE "none"]
  /\ Start(tasks \ {t}, {})
  /\ UNCHANGED <<hvars, guess, memo, keydown, format, calls, state, localStorage, prefersDark, toasted, cycled>>

\* the cancel button of the backup dialog, or a click on its backdrop
CancelLoadBackupClick ==
  /\ Shown(dom.loadBackupModal)
  /\ dom' = [dom EXCEPT !.loadBackupModal = FALSE]
  /\ UNCHANGED <<hvars, guess, memo, keydown, format, calls, state, localStorage, prefersDark, tasks, toasted, cycled>>

\* selectBackup up to its await, from a click on an item of the backup list
selectBackup ==
  /\ Shown(dom.loadBackupModal)
  /\ dom.backupList = "items"
  /\ dom' = [dom EXCEPT !.backupSessions = [kind |-> "loading"]]
  /\ Start(tasks, {Task("loadBackup", "selectBackup", 0, NoPath)})
  /\ UNCHANGED <<hvars, guess, memo, keydown, format, calls, state, localStorage, prefersDark, toasted, cycled>>

\* the View button of the item of the session name of a backup, up to its await
ViewClick(name) ==
  /\ Shown(dom.loadBackupModal)
  /\ dom.backupSessions.kind = "items"
  /\ dom' = [dom EXCEPT !.loadBackupModal = FALSE,
                        !.sessionList = [kind |-> "loading"]]
  /\ Start(tasks, {Task("loadBackup", "view", 0, name)})
  /\ UNCHANGED <<hvars, guess, memo, keydown, format, calls, state, localStorage, prefersDark, toasted, cycled>>

\* the Restore button of the item of the session name of a backup, up to its await
RestoreClick(name) ==
  /\ Shown(dom.loadBackupModal)
  /\ dom.backupSessions.kind = "items"
  /\ Start(tasks, {Task("restoreSession", "restore", 0, name)})
  /\ UNCHANGED <<hvars, guess, memo, keydown, format, calls, state, dom, localStorage, prefersDark, toasted, cycled>>

\* the index of the first session of list named name, -1 when there is none
findIndex(list, name) ==
  IF \E k \in 1..Len(list) : list[k] = name
    THEN (CHOOSE k \in 1..Len(list) : list[k] = name /\ \A j \in 1..(k - 1) : list[j] # name) - 1
    ELSE -1

\* loadBackup settles: the rest of selectBackup or of the View handler; list is
\* the sessions of the backup, stored with their messages or without
LoadBackupSettles(t, outcome, list, stored) ==
  LET res == api(t.fn, outcome)
      sessions == IF outcome = "ok" THEN list ELSE <<>>
      st1 == [state EXCEPT !.sessions =
                [k \in 1..Len(sessions) |->
                   [path |-> sessions[k],
                    messages |-> IF stored THEN <<sessions[k]>> ELSE <<>>]]]
      d1 == [dom EXCEPT !.sessionList = renderSessionList(st1)]
      idx == findIndex(sessions, t.path)
  IN /\ t \in tasks
     /\ t.fn = "loadBackup"
     /\ IF res.settled = "rejected"
          THEN /\ Start(tasks \ {t}, {})
               /\ UNCHANGED <<state, dom, toasted>>
          ELSE IF t.then = "selectBackup"
            THEN /\ dom' = [dom EXCEPT !.backupSessions =
                              IF res.error THEN [kind |-> "error"]
                              ELSE IF sessions = <<>> THEN [kind |-> "none"]
                              ELSE [kind |-> "items"]]
                 /\ Start(tasks \ {t}, {})
                 /\ UNCHANGED <<state, toasted>>
            ELSE IF res.error
              THEN /\ Start(tasks \ {t}, {})
                   /\ UNCHANGED <<state, dom, toasted>>
              ELSE IF sessions = <<>>
                THEN /\ state' = st1
                     /\ dom' = d1
                     /\ toasted' = ToastAfter("viewing", st1)
                     /\ Start(Detached(tasks \ {t}), {})
                ELSE Selecting(st1, d1, IF idx >= 0 THEN idx ELSE 0, "viewing",
                               Detached(tasks \ {t}))
     /\ UNCHANGED <<hvars, guess, memo, keydown, format, calls, localStorage, prefersDark, cycled>>

\* restoreSession settles: the rest of the Restore handler
RestoreSessionSettles(t, outcome) ==
  LET res == api(t.fn, outcome)
  IN /\ t \in tasks
     /\ t.fn = "restoreSession"
     /\ IF res.settled = "rejected"
          THEN /\ Start(tasks \ {t}, {})
               /\ UNCHANGED <<dom, toasted>>
          ELSE IF res.error
            THEN /\ toasted' = Toast("error")
                 /\ Start(tasks \ {t}, {})
                 /\ UNCHANGED dom
            ELSE /\ toasted' = Toast("success")
                 /\ loadFromServer(dom, "afterRestore", tasks \ {t})
     /\ UNCHANGED <<hvars, guess, memo, keydown, format, calls, state, localStorage, prefersDark, cycled>>

InitUI ==
  /\ HighlightIdle
  /\ \E server \in BOOLEAN : PageLoaded("missing", FALSE, server)

NextUI ==
  \/ \E idx \in 0..(MaxSessions - 1) : SessionClick(idx)
  \/ \E direction \in {"prev", "next"} : navigateSession(direction)
  \/ RefreshClick
  \/ \E n \in 0..MaxSessions : handleFileInput(n)
  \/ DeleteBtnClick
  \/ CancelDeleteClick
  \/ ConfirmDeleteClick
  \/ EscapeKey
  \/ BackupClick
  \/ LoadBackupClick
  \/ CancelLoadBackupClick
  \/ selectBackup
  \/ \E name \in Paths : ViewClick(name)
  \/ \E name \in Paths : RestoreClick(name)
  \/ \E t \in tasks, outcome \in Outcomes :
       \/ \E list \in ServerLists : LoadSessionsSettles(t, outcome, list)
       \/ LoadSessionSettles(t, outcome)
       \/ DeleteSessionSettles(t, outcome)
       \/ BackupAllSettles(t, outcome)
       \/ GetBackupsSettles(t, outcome)
       \/ \E list \in ServerLists, stored \in BOOLEAN :
            LoadBackupSettles(t, outcome, list, stored)
       \/ RestoreSessionSettles(t, outcome)

SpecUI == InitUI /\ [][NextUI /\ InFlight(MaxTasks)]_vars

\* the handlers that end in selectSession and the requests they wait for, with
\* loads of several sessions in flight at once
NextSelect ==
  \/ \E idx \in 0..(MaxSessions - 1) : SessionClick(idx)
  \/ \E direction \in {"prev", "next"} : navigateSession(direction)
  \/ RefreshClick
  \/ \E n \in 1..MaxSessions : handleFileInput(n)
  \/ \E t \in tasks, outcome \in Outcomes :
       \/ \E list \in ServerLists : LoadSessionsSettles(t, outcome, list)
       \/ LoadSessionSettles(t, outcome)

SpecSelect == InitUI /\ [][NextSelect /\ InFlight(MaxLoads)]_vars

----------------------------------------------------------------------------
(* The functions of api.ts on their own, called by any caller *)

\* how the promise of the request t settled
Settled(t, outcome) ==
  [fn |-> t.fn, outcome |-> outcome,
   settled |-> api(t.fn, outcome).settled,
   null |-> api(t.fn, outcome).null,
   error |-> api(t.fn, outcome).error]

\* a caller calls fn, the request leaves
ApiCall(fn, path) ==
  /\ Start(tasks, {Task(fn, "caller", 0, path)})
  /\ UNCHANGED <<hvars, guess, memo, keydown, format, state, dom, localStorage, prefersDark, calls,
                 toasted, cycled>>

\* the request of t ends with outcome, the promise the caller holds settles
ApiSettles(t, outcome) ==
  /\ t \in tasks
  /\ tasks' = tasks \ {t}
  /\ calls' = [calls EXCEPT !.settled = Settled(t, outcome)]
  /\ UNCHANGED <<hvars, guess, memo, keydown, format, state, dom, localStorage, prefersDark, toasted, cycled>>

NextApi ==
  \/ \E fn \in {"loadSessions", "loadSession", "deleteSession", "backupAll",
               "getBackups", "loadBackup", "restoreSession"},
        path \in Paths \cup {NoPath} : ApiCall(fn, path)
  \/ \E t \in tasks, outcome \in Outcomes : ApiSettles(t, outcome)

SpecApi == InitUI /\ [][NextApi /\ InFlight(MaxTasks)]_vars

----------------------------------------------------------------------------
(* The keydown listener (keyboard.ts) with the shortcuts main.ts registers *)

KeyName ==
  [slash |-> <<"/">>, j |-> <<"j">>, k |-> <<"k">>, t |-> <<"t">>, o |-> <<"o">>,
   r |-> <<"r">>, e |-> <<"e">>, Escape |-> <<"E", "s", "c", "a", "p", "e">>,
   question |-> <<"?">>]

\* registerShortcut({key, shift?, description, action}): the array `shortcuts`
\* once setupKeyboardShortcuts has run, the fields ctrl, alt and shift read
\* with ?? false
shortcuts ==
  LET Plain(key, action) ==
        [key |-> key, ctrl |-> FALSE, alt |-> FALSE, shift |-> FALSE, action |-> action]
  IN  <<Plain(KeyName.slash, "Focus search"),
        Plain(KeyName.j, "Next session"),
        Plain(KeyName.k, "Previous session"),
        Plain(KeyName.t, "Toggle thinking blocks"),
        Plain(KeyName.o, "Toggle tool calls"),
        Plain(KeyName.r, "Toggle redaction"),
        Plain(KeyName.e, "Export conversation"),
        Plain(KeyName.Escape, "Close modal/sidebar"),
        [Plain(KeyName.question, "Show keyboard shortcuts") EXCEPT !.shift = TRUE]>>

\* the tag names of the elements a keydown can come from
TagName ==
  [input |-> <<"I", "N", "P", "U", "T">>,
   textarea |-> <<"T", "E", "X", "T", "A", "R", "E", "A">>,
   select |-> <<"S", "E", "L", "E", "C", "T">>,
   div |-> <<"D", "I", "V">>,
   body |-> <<"B", "O", "D", "Y">>]

\* isInputField without its test of isContentEditable
isInputFieldByTag(el) ==
  IF ~el.HTMLElement THEN FALSE
  ELSE LET tagName == toLowerCase(el.tagName)
       IN  \/ tagName = toLowerCase(TagName.input)
           \/ tagName = toLowerCase(TagName.textarea)
           \/ tagName = toLowerCase(TagName.select)

\* keyboard.ts isInputField (lines 23-33)
isInputField(el) ==
  IF ~el.HTMLElement THEN FALSE
  ELSE LET tagName == toLowerCase(el.tagName)
       IN  \/ tagName = toLowerCase(TagName.input)
           \/ tagName = toLowerCase(TagName.textarea)
           \/ tagName = toLowerCase(TagName.select)
           \/ el.isContentEditable

\* the test of one shortcut in the loop of the listener (lines 113-116)
Matches(shortcut, e) ==
  LET ctrlMatch == shortcut.ctrl = (e.ctrlKey \/ e.metaKey)
      altMatch == shortcut.alt = e.altKey
      shiftMatch == shortcut.shift = e.shiftKey
      keyMatch == toLowerCase(e.key) = toLowerCase(shortcut.key)
  IN  ctrlMatch /\ altMatch /\ shiftMatch /\ keyMatch

\* the loop of the listener from the shortcut n on: the actions it runs
RECURSIVE Dispatch(_, _)
Dispatch(e, n) ==
  IF n > Len(shortcuts) THEN <<>>
  ELSE IF Matches(shortcuts[n], e) THEN <<shortcuts[n].action>>
  ELSE Dispatch(e, n + 1)

\* the keydown events: the keys of the shortcuts in either case, other keys,
\* every combination of modifiers, and the targets a page has
KeyEvents ==
  [key : {KeyName.slash, KeyName.j, <<"J">>, KeyName.Escape, KeyName.question, <<"x">>},
   ctrlKey : BOOLEAN, metaKey : BOOLEAN, altKey : BOOLEAN, shiftKey : BOOLEAN,
   target : {[HTMLElement |-> TRUE, tagName |-> tag, isContentEditable |-> FALSE] :
               tag \in {TagName.input, TagName.textarea, TagName.select, TagName.body}}
            \cup {[HTMLElement |-> TRUE, tagName |-> TagName.div, isContentEditable |-> ce] :
                    ce \in BOOLEAN}
            \cup {[HTMLElement |-> FALSE, tagName |-> <<"s", "v", "g">>,
                   isContentEditable |-> FALSE]}]

\* the listener initKeyboardShortcuts adds to the document (lines 102-126)
Keydown(e) ==
  /\ keydown' =
       IF isInputField(e.target)
         THEN [event |-> e, ran |-> <<>>,
               blurred |-> e.key = KeyName.Escape /\ e.target.HTMLElement,
               defaultPrevented |-> FALSE]
         ELSE [event |-> e, ran |-> Dispatch(e, 1), blurred |-> FALSE,
               defaultPrevented |-> Dispatch(e, 1) # <<>>]
  /\ UNCHANGED <<hvars, guess, memo, state, dom, localStorage, prefersDark, tasks, calls,
                 toasted, cycled, format>>

NextKeys == \E e \in KeyEvents : Keydown(e)

SpecKeys == InitUI /\ [][NextKeys]_vars

----------------------------------------------------------------------------
(* The renderer: formatContentWithHighlight (render.ts) with escapeHtml and
   redactSensitive (utils.ts) *)

\* one element of a pattern: \b, or a character class with its quantifier
\* ({min,max}, max = -1 for no upper limit; lazy for *?)
WordBoundary == [b |-> TRUE]

Rep(set, min, max) ==
  [b |-> FALSE, in |-> set, neg |-> FALSE, min |-> min, max |-> max, lazy |-> FALSE]

NotRep(set, min, max) == [Rep(set, min, max) EXCEPT !.neg = TRUE]

Lit(s) == [k \in 1..Len(s) |-> Rep({s[k]}, 1, 1)]

\* the character c is in the class of the element it, under the flag i or not
InClass(c, it, ci) ==
  (IF ci THEN LowerOf(c) \in {LowerOf(x) : x \in it.in} ELSE c \in it.in) # it.neg

\* how many characters from position i on are in the class of it, up to its max
RECURSIVE RunLen(_, _, _, _, _)
RunLen(t, i, it, ci, n) ==
  IF i + n > Len(t) \/ n = it.max \/ ~InClass(t[i + n], it, ci) THEN n
  ELSE RunLen(t, i, it, ci, n + 1)

\* a backtracking match of the elements k.. of items at position i of t: the
\* end of the match the engine finds first, 0 when there is none
RECURSIVE MatchItems(_, _, _, _, _)
MatchItems(items, k, t, i, ci) ==
  IF k > Len(items) THEN i
  ELSE LET it == items[k]
           N == IF it.b THEN (IF WB(t, i) THEN {0} ELSE {})
                ELSE it.min..RunLen(t, i, it, ci, 0)
           ends == [n \in N |-> MatchItems(items, k + 1, t, i + n, ci)]
           good == {n \in N : ends[n] > 0}
       IN  IF good = {} THEN 0
           ELSE IF it.b THEN ends[0]
           ELSE IF it.lazy THEN ends[CHOOSE n \in good : \A m \in good : n <= m]
           ELSE ends[CHOOSE n \in good : \A m \in good : n >= m]

\* a pattern with its alternatives in the order the engine tries them
RECURSIVE MatchAlts(_, _, _, _)
MatchAlts(pattern, a, t, i) ==
  IF a > Len(pattern.alts) THEN 0
  ELSE LET e == MatchItems(pattern.alts[a], 1, t, i, pattern.ci)
       IN  IF e > 0 THEN e ELSE MatchAlts(pattern, a + 1, t, i)

\* utils.ts SENSITIVE_PATTERNS (lines 7-48), in the order of the array
SENSITIVE_PATTERNS ==
  LET alnum == LowerCase \cup UpperCase \cup Digit
      sep == Rep(Space \cup {":", "="}, 1, -1)
      quote == Rep({"'", "\""}, 0, 1)
      dash == Rep({"_", "-"}, 0, 1)
      octet == Rep(Digit, 1, 3)
      dot == Lit(<<".">>)
      b == <<WordBoundary>>
      One(ci, items) == [ci |-> ci, alts |-> <<items>>]
      Two(ci, first, second) == [ci |-> ci, alts |-> <<first, second>>]
      Uri(scheme) == b \o Lit(scheme) \o <<NotRep(Space, 1, -1)>>
      Prefixed(prefix, set, min, max) == b \o Lit(prefix) \o <<Rep(set, min, max)>> \o b
      Labelled(label, set, min, max) ==
        b \o label \o <<sep, quote, Rep(set, min, max), quote>>
      Class172(tens, units) ==
        b \o Lit(<<"1", "7", "2", ".">>) \o Lit(tens) \o <<Rep(units, 1, 1)>> \o dot
          \o <<octet>> \o dot \o <<octet>> \o b
  IN  <<One(FALSE, Prefixed(<<"s", "k", "-">>, alnum, 20, -1)),
        One(TRUE, Labelled(Lit(<<"a", "p", "i">>) \o <<dash>> \o Lit(<<"k", "e", "y">>) \o <<Rep({"s"}, 0, 1)>>,
                           alnum \cup {"_", "-"}, 20, -1)),
        One(TRUE, Labelled(Lit(<<"t", "o", "k", "e", "n">>), alnum \cup {"_", "-", "."}, 20, -1)),
        One(TRUE, Labelled(Lit(<<"s", "e", "c", "r", "e", "t">>), alnum \cup {"_", "-"}, 16, -1)),
        One(TRUE, b \o Lit(<<"p", "a", "s", "s", "w", "o", "r", "d">>)
                    \o <<sep, quote, NotRep(Space \cup {"'", "\""}, 8, -1), quote>>),
        One(TRUE, b \o Lit(<<"b", "e", "a", "r", "e", "r">>)
                    \o <<Rep(Space, 1, -1), Rep(alnum \cup {"_", "-", "."}, 1, -1)>>),
        One(FALSE, Prefixed(<<"A", "K", "I", "A">>, Digit \cup UpperCase, 16, 16)),
        One(TRUE, Labelled(Lit(<<"a", "w", "s">>) \o <<dash>> \o Lit(<<"s", "e", "c", "r", "e", "t">>) \o <<dash>>
                             \o Lit(<<"a", "c", "c", "e", "s", "s">>) \o <<dash>> \o Lit(<<"k", "e", "y">>),
                           alnum \cup {"/", "+", "="}, 40, 40)),
        One(FALSE, Prefixed(<<"g", "h", "p", "_">>, alnum, 36, 36)),
        One(FALSE, Prefixed(<<"g", "h", "o", "_">>, alnum, 36, 36)),
        One(FALSE, Prefixed(<<"g", "i", "t", "h", "u", "b", "_", "p", "a", "t", "_">>, alnum \cup {"_"}, 22, -1)),
        One(FALSE, Lit(<<"-", "-", "-", "-", "-", "B", "E", "G", "I", "N", " ">>) \o <<Rep(UpperCase, 1, -1)>>
                     \o Lit(<<" ", "P", "R", "I", "V", "A", "T", "E", " ", "K", "E", "Y", "-", "-", "-", "-", "-">>)
                     \o <<[NotRep({}, 0, -1) EXCEPT !.lazy = TRUE]>>
                     \o Lit(<<"-", "-", "-", "-", "-", "E", "N", "D", " ">>) \o <<Rep(UpperCase, 1, -1)>>
                     \o Lit(<<" ", "P", "R", "I", "V", "A", "T", "E", " ", "K", "E", "Y", "-", "-", "-", "-", "-">>)),
        Two(TRUE, Uri(<<"m", "o", "n", "g", "o", "d", "b", "+", "s", "r", "v", ":", "/", "/">>), Uri(<<"m", "o", "n", "g", "o", "d", "b", ":", "/", "/">>)),
        Two(TRUE, Uri(<<"p", "o", "s", "t", "g", "r", "e", "s", "q", "l", ":", "/", "/">>), Uri(<<"p", "o", "s", "t", "g", "r", "e", "s", ":", "/", "/">>)),
        One(TRUE, Uri(<<"m", "y", "s", "q", "l", ":", "/", "/">>)),
        One(TRUE, Uri(<<"r", "e", "d", "i", "s", ":", "/", "/">>)),
        One(FALSE, b \o <<Rep(alnum \cup {".", "_", "%", "+", "-"}, 1, -1)>> \o Lit(<<"@">>)
                     \o <<Rep(alnum \cup {".", "-"}, 1, -1)>> \o dot
                     \o <<Rep(LowerCase \cup UpperCase, 2, -1)>> \o b),
        One(FALSE, b \o Lit(<<"1", "0", ".">>) \o <<octet>> \o dot \o <<octet>> \o dot \o <<octet>> \o b),
        One(FALSE, b \o Lit(<<"1", "9", "2", ".", "1", "6", "8", ".">>) \o <<octet>> \o dot \o <<octet>> \o b),
        [ci |-> FALSE,
         alts |-> <<Class172(<<"1">>, {"6", "7", "8", "9"}), Class172(<<"2">>, Digit),
                    Class172(<<"3">>, {"0", "1"})>>]>>

\* `<span class="redacted">REDACTED</span>`
RedactedSpan ==
  <<"<", "s", "p", "a", "n", " ", "c", "l", "a", "s", "s", "=", "\"", "r", "e", "d", "a",
        "c", "t", "e", "d", "\"", ">", "R", "E", "D", "A", "C", "T", "E", "D", "<", "/", "s",
        "p", "a", "n", ">">>

\* the callback of redactSensitive (lines 68-72) on one match
Redacted(match) ==
  IF Len(match) > 12
    THEN SubSeq(match, 1, 4) \o RedactedSpan \o SubSeq(match, Len(match) - 3, Len(match))
    ELSE RedactedSpan

\* redacted.replace(pattern, callback) for a pattern with the flag g
RECURSIVE ReplaceSensitive(_, _, _)
ReplaceSensitive(pattern, t, i) ==
  IF i > Len(t) THEN <<>>
  ELSE LET e == MatchAlts(pattern, 1, t, i)
       IN  IF e > i THEN Redacted(SubSeq(t, i, e - 1)) \o ReplaceSensitive(pattern, t, e)
           ELSE <<t[i]>> \o ReplaceSensitive(pattern, t, i + 1)

\* SENSITIVE_PATTERNS.forEach(...) from the pattern n on
RECURSIVE RedactFrom(_, _)
RedactFrom(t, n) ==
  IF n > Len(SENSITIVE_PATTERNS) THEN t
  ELSE RedactFrom(ReplaceSensitive(SENSITIVE_PATTERNS[n], t, 1), n + 1)

\* utils.ts redactSensitive (lines 63-75)
redactSensitive(text, redactSecrets) ==
  IF ~redactSecrets \/ text = <<>> THEN text ELSE RedactFrom(text, 1)

\* the most fenced blocks rendered since the page was loaded
MaxBlocks == 2

FENCE == <<BACKTICK, BACKTICK, BACKTICK>>

\* /```(\w*)\n([\s\S]*?)```/ at position i: where the match ends (0: none),
\* with its two groups (line 26)
blockRe(t, i) ==
  LET r == RunEnd(t, i + 3, WordChar)
      q == FindFrom(t, r + 1, FENCE)
  IN  IF StartsAt(t, i, FENCE) /\ CharAt(t, r) = "\n" /\ q > 0
        THEN [start |-> i, end |-> q + 3, lang |-> SubSeq(t, i + 3, r - 1),
              code |-> SubSeq(t, r + 1, q - 1)]
        ELSE [start |-> i, end |-> 0, lang |-> <<>>, code |-> <<>>]

\* the fenced blocks of t from position i on, left to right (flag g)
RECURSIVE Fences(_, _)
Fences(t, i) ==
  IF i > Len(t) THEN <<>>
  ELSE LET m == blockRe(t, i)
       IN  IF m.end > 0 THEN <<m>> \o Fences(t, m.end) ELSE Fences(t, i + 1)

\* /`([^`]+)`/ at position i (line 53)
inlineRe(t, i) ==
  LET r == RunEndNot(t, i + 1, {BACKTICK})
  IN  IF CharAt(t, i) = BACKTICK /\ r > i + 1 /\ CharAt(t, r) = BACKTICK
        THEN r + 1 ELSE 0

RECURSIVE InlineCodes(_, _)
InlineCodes(t, i) ==
  IF i > Len(t) THEN <<>>
  ELSE LET e == inlineRe(t, i)
       IN  IF e > 0 THEN <<<<i, e>>>> \o InlineCodes(t, e) ELSE InlineCodes(t, i + 1)

\* String.prototype.trim
trim(s) ==
  LET K == {k \in 1..Len(s) : s[k] \notin Space}
  IN  IF K = {} THEN <<>>
      ELSE SubSeq(s, CHOOSE k \in K : \A j \in K : k <= j,
                     CHOOSE k \in K : \A j \in K : j <= k)

\* `code-${++codeBlockId}` (lines 11-14), n being the counter after its increment
getCodeBlockId(n) == <<"c", "o", "d", "e", "-">> \o ToDigits(n)

\* `\x00BLOCK${replacements.length}\x00` (line 31), `\x00INLINE...` (line 54)
Placeholder(kind, n) == <<NUL>> \o kind \o ToDigits(n) \o <<NUL>>

\* `<pre id="${blockId}"><code>${highlighted}</code></pre>` (line 44)
PreOf(blockId, highlighted) ==
  <<"<", "p", "r", "e", " ", "i", "d", "=", "\"">>
    \o blockId \o <<"\"", ">", "<", "c", "o", "d", "e", ">">> \o highlighted
    \o <<"<", "/", "c", "o", "d", "e", ">", "<", "/", "p", "r", "e", ">">>

\* the html of a block (lines 35-46); the markup icon('copy') returns is kept
\* as one symbol
BlockHtml(langLabel, blockId, highlighted) ==
  <<"\n", " ", " ", " ", " ", " ", " ", " ", " ", "<", "d", "i", "v", " ", "c", "l", "a",
    "s", "s", "=", "\"", "c", "o", "d", "e", "-", "b", "l", "o", "c", "k", "-", "w", "r",
    "a", "p", "p", "e", "r", "\"", ">", "\n", " ", " ", " ", " ", " ", " ", " ", " ", " ",
    " ", "<", "d", "i", "v", " ", "c", "l", "a", "s", "s", "=", "\"", "c", "o", "d", "e",
    "-", "b", "l", "o", "c", "k", "-", "h", "e", "a", "d", "e", "r", "\"", ">", "\n", " ",
    " ", " ", " ", " ", " ", " ", " ", " ", " ", " ", " ", "<", "s", "p", "a", "n", " ", "c",
    "l", "a", "s", "s", "=", "\"", "c", "o", "d", "e", "-", "b", "l", "o", "c", "k", "-",
    "l", "a", "n", "g", "\"", ">">>
    \o langLabel
    \o <<"<", "/", "s", "p", "a", "n", ">", "\n", " ", " ", " ", " ", " ", " ", " ", " ", " ",
    " ", " ", " ", "<", "b", "u", "t", "t", "o", "n", " ", "c", "l", "a", "s", "s", "=",
    "\"", "c", "o", "p", "y", "-", "b", "t", "n", "\"", " ", "d", "a", "t", "a", "-", "c",
    "o", "d", "e", "-", "i", "d", "=", "\"">>
    \o blockId
    \o <<"\"", " ", "t", "y", "p", "e", "=", "\"", "b", "u", "t", "t", "o", "n", "\"", " ", "a",
    "r", "i", "a", "-", "l", "a", "b", "e", "l", "=", "\"", "C", "o", "p", "y", " ", "c",
    "o", "d", "e", "\"", ">", "\n", " ", " ", " ", " ", " ", " ", " ", " ", " ", " ", " ",
    " ", " ", " ", "icon(copy)", "\n", " ", " ", " ", " ", " ", " ", " ", " ", " ", " ", " ",
    " ", " ", " ", "<", "s", "p", "a", "n", ">", "C", "o", "p", "y", "<", "/", "s", "p", "a",
    "n", ">", "\n", " ", " ", " ", " ", " ", " ", " ", " ", " ", " ", " ", " ", "<", "/",
    "b", "u", "t", "t", "o", "n", ">", "\n", " ", " ", " ", " ", " ", " ", " ", " ", " ",
    " ", "<", "/", "d", "i", "v", ">", "\n", " ", " ", " ", " ", " ", " ", " ", " ", " ",
    " ">>
    \o PreOf(blockId, highlighted)
    \o <<"\n", " ", " ", " ", " ", " ", " ", " ", " ", "<", "/", "d", "i", "v", ">", "\n", " ",
    " ", " ", " ", " ", " ">>

\* escapeHtml of utils.ts (lines 53-58): the text as the innerHTML of an element
\* that holds it as its text
serialize(text) ==
  ReplaceChar(escapeHtml(text), "NBSP", <<"&", "n", "b", "s", "p", ";">>)

\* the replacement text of String.prototype.replace with a string pattern:
\* $$ is a dollar sign, $& the matched text, $BACKTICK what stands before the
\* match and $' what stands after it
RECURSIVE GetSubstitution(_, _, _, _)
GetSubstitution(matched, before, after, replacement) ==
  LET P == {p \in 1..(Len(replacement) - 1) :
              replacement[p] = "$" /\ replacement[p + 1] \in {"$", "&", BACKTICK, "'"}}
      p == CHOOSE x \in P : \A y \in P : x <= y
      c == replacement[p + 1]
  IN  IF P = {} THEN replacement
      ELSE SubSeq(replacement, 1, p - 1)
             \o (CASE c = "$" -> <<"$">>
                   [] c = "&" -> matched
                   [] c = BACKTICK -> before
                   [] c = "'" -> after)
             \o GetSubstitution(matched, before, after,
                                SubSeq(replacement, p + 2, Len(replacement)))

\* processed.replace(placeholder, html) (line 67): the first occurrence only
replaceFirst(t, pattern, replacement) ==
  LET p == FindFrom(t, 1, pattern)
      before == SubSeq(t, 1, p - 1)
      after == SubSeq(t, p + Len(pattern), Len(t))
  IN  IF p = 0 THEN t
      ELSE before \o GetSubstitution(pattern, before, after, replacement) \o after

\* the loop of lines 66-68 from the k-th replacement on
RECURSIVE RestoreCode(_, _, _)
RestoreCode(t, replacements, k) ==
  IF k > Len(replacements) THEN t
  ELSE RestoreCode(replaceFirst(t, replacements[k].placeholder, replacements[k].html),
                   replacements, k + 1)

\* lang || detectLanguage(code) || '' (line 28)
LanguageOf(m) ==
  IF m.lang # <<>> THEN m.lang
  ELSE IF detectLanguage(m.code) # Undefined THEN detectLanguage(m.code)
  ELSE <<>>

\* a call of formatContentWithHighlight begins (lines 19-26): the fenced blocks
\* of the text are found; an empty text is returned as it is
FormatCall(text) ==
  /\ pc = "idle"
  /\ format.stage \in {"none", "returned"}
  /\ format.codeBlockId + Len(Fences(text, 1)) <= MaxBlocks
  /\ format' = [stage |-> IF text = <<>> THEN "returned" ELSE "blocks",
                codeBlockId |-> format.codeBlockId,
                text |-> text,
                blocks |-> IF text = <<>> THEN <<>> ELSE Fences(text, 1),
                replacements |-> <<>>,
                out |-> <<>>]
  /\ UNCHANGED <<hvars, guess, memo, keydown, state, dom, localStorage, prefersDark,
                 tasks, calls, toasted, cycled>>

\* the callback of line 26 reaches line 29 for the next fenced block
BlockHighlight ==
  /\ format.stage = "blocks"
  /\ Len(format.replacements) < Len(format.blocks)
  /\ LET m == format.blocks[Len(format.replacements) + 1]
     IN  Highlight(trim(m.code), LanguageOf(m))

\* highlight has returned: lines 30-49 record the block's placeholder and html
BlockDone ==
  /\ format.stage = "blocks"
  /\ pc = "done"
  /\ LET m == format.blocks[Len(format.replacements) + 1]
         blockId == getCodeBlockId(format.codeBlockId + 1)
         langLabel == IF LanguageOf(m) # <<>> THEN LanguageOf(m) ELSE <<"c", "o", "d", "e">>
     IN  format' = [format EXCEPT
                      !.codeBlockId = @ + 1,
                      !.replacements =
                        Append(@, [kind |-> "block",
                                   placeholder |-> Placeholder(<<"B", "L", "O", "C", "K">>, Len(@)),
                                   html |-> BlockHtml(langLabel, blockId, result),
                                   pre |-> PreOf(blockId, result)])]
  /\ pc' = "idle"
  /\ code' = <<>>
  /\ language' = Undefined
  /\ rules' = [kind |-> "null"]
  /\ result' = <<>>
  /\ placeholders' = <<>>
  /\ origin' = <<>>
  /\ log' = <<>>
  /\ restored' = <<>>
  /\ UNCHANGED <<lastIndex, guess, memo, keydown, state, dom, localStorage, prefersDark,
                 tasks, calls, toasted, cycled>>

\* lines 26 and 52-71: the blocks give way to their placeholders, then the
\* inline code; the rest is escaped and redacted; the code is put back
FormatFinish ==
  /\ format.stage = "blocks"
  /\ Len(format.replacements) = Len(format.blocks)
  /\ pc = "idle"
  /\ LET blocks == format.blocks
         fenced == Splice(format.text,
                          [k \in 1..Len(blocks) |-> <<blocks[k].start, blocks[k].end>>],
                          [k \in 1..Len(blocks) |-> format.replacements[k].placeholder],
                          1, 1)
         ms == InlineCodes(fenced, 1)
         inline == [k \in 1..Len(ms) |->
                      [kind |-> "inline",
                       placeholder |-> Placeholder(<<"I", "N", "L", "I", "N", "E">>, Len(blocks) + k - 1),
                       html |-> <<"<", "c", "o", "d", "e", ">">>
                                  \o serialize(SubSeq(fenced, ms[k][1] + 1, ms[k][2] - 2))
                                  \o <<"<", "/", "c", "o", "d", "e", ">">>,
                       pre |-> <<>>]]
         processed == Splice(fenced, ms, [k \in 1..Len(ms) |-> inline[k].placeholder], 1, 1)
         replacements == format.replacements \o inline
     IN  format' = [format EXCEPT
                      !.stage = "returned",
                      !.replacements = replacements,
                      !.out = RestoreCode(
                                redactSensitive(serialize(processed), state.redactSecrets),
                                replacements, 1)]
  /\ UNCHANGED <<hvars, guess, memo, keydown, state, dom, localStorage, prefersDark,
                 tasks, calls, toasted, cycled>>

\* message texts: a shell block that prints its process id, inline code beside
\* a block, a label before a block, plain text with an address, two blocks
M_pid ==
  <<BACKTICK, BACKTICK, BACKTICK, "b", "a", "s", "h", "\n", "e", "c", "h", "o", " ", "$",
    "$", "\n", BACKTICK, BACKTICK, BACKTICK>>
M_two ==
  <<"s", "e", "e", " ", BACKTICK, "a", "<", "b", BACKTICK, " ", "a", "n", "d", "\n",
    BACKTICK, BACKTICK, BACKTICK, "j", "s", "\n", "i", "f", " ", "(", "x", ")", " ", "{",
    "}", "\n", BACKTICK, BACKTICK, BACKTICK>>
M_secret ==
  <<"p", "a", "s", "s", "w", "o", "r", "d", ":", " ", BACKTICK, BACKTICK, BACKTICK, "\n",
    "x", "\n", BACKTICK, BACKTICK, BACKTICK>>
M_mail ==
  <<"m", "a", "i", "l", " ", "a", "@", "b", ".", "c", "d", " ", "&", " ", "c", "o">>
M_twice ==
  <<BACKTICK, BACKTICK, BACKTICK, "\n", "x", "\n", BACKTICK, BACKTICK, BACKTICK, " ", "o",
    "r", " ", BACKTICK, BACKTICK, BACKTICK, "t", "s", "\n", "l", "e", "t", " ", "a", ":",
    " ", "T", "\n", BACKTICK, BACKTICK, BACKTICK>>

\* the pieces the bounded message texts are built from
TextAtoms ==
  {FENCE \o <<"\n">>, FENCE, <<BACKTICK>>, <<"$", "&">>, <<"x">>, <<"<">>}

Texts ==
  {M_pid, M_two, M_secret, M_mail, M_twice}
    \cup UNION {{Flatten(ss) : ss \in [1..n -> TextAtoms]} : n \in 0..MaxLen}

NextFormat ==
  \/ \E text \in Texts : FormatCall(text)
  \/ BlockHighlight
  \/ CommentsPass
  \/ StringsPass
  \/ NumbersPass
  \/ FunctionsPass
  \/ KeywordsPass
  \/ TypesPass
  \/ BuiltinsPass
  \/ Restore
  \/ BlockDone
  \/ FormatFinish
  \/ ToggleRedactClick

SpecFormat == Init /\ [][NextFormat]_vars

----------------------------------------------------------------------------
(* Vocabulary of the properties *)

Range(s) == {s[k] : k \in 1..Len(s)}

\* sub occurs in t as a contiguous piece
Occurs(sub, t) == \E q \in 1..(Len(t) - Len(sub) + 1) : StartsAt(t, q, sub)

\* the categories, in the priority order of the passes
Classes == <<ClassName.comment, ClassName.string, ClassName.number, ClassName.function, ClassName.keyword, ClassName.type, ClassName.builtin>>

Rank(c) == CHOOSE r \in 1..Len(Classes) : Classes[r] = c

\* the rank of the pass a call stands before; past the last pass, and between calls, 8
PcRank(p) ==
  CASE p = "comments" -> 1 [] p = "strings" -> 2 [] p = "numbers" -> 3
    [] p = "functions" -> 4 [] p = "keywords" -> 5 [] p = "types" -> 6
    [] p = "builtins" -> 7 [] OTHER -> 8

\* the wrappers the engine emits
Tags == {SpanOpen(c) : c \in Range(Classes)} \cup {SpanClose}

\* t with every wrapper deleted
RECURSIVE StripSpans(_, _)
StripSpans(t, i) ==
  IF i > Len(t) THEN <<>>
  ELSE LET here == {tag \in Tags : StartsAt(t, i, tag)}
       IN  IF here = {} THEN <<t[i]>> \o StripSpans(t, i + 1)
           ELSE StripSpans(t, i + Len(CHOOSE tag \in here : TRUE))

\* the angle bracket at p opens or closes a wrapper that the engine wrote whole
InTag(t, p) ==
  \E tag \in Tags :
    LET q == IF t[p] = "<" THEN p ELSE p - Len(tag) + 1
    IN  /\ StartsAt(t, q, tag)
        /\ \A j \in q..(q + Len(tag) - 1) : origin[j] = 0

\* position p of the output lies in a wrapper of class c: the nearest wrapper
\* before p is the opening one of c
InsideSpan(t, p, c) ==
  LET Q == {q \in 1..p : t[q] = "<" /\ origin[q] = 0}
  IN  Q # {} /\ StartsAt(t, CHOOSE q \in Q : \A r \in Q : r <= q, SpanOpen(c))

\* the positions of the escaped code that the matches of class c covered
SrcOf(c) == UNION {Range(log[k].src) : k \in {j \in 1..Len(log) : log[j].cls = c}} \ {0}

HasRules == rules.kind # "null"

CleanInput == NUL \notin Range(code)

\* how often the restoration pass read ledger index n
Reads(n) == Cardinality({k \in 1..Len(restored) : restored[k].idx = n})

----------------------------------------------------------------------------
(* The properties *)

\* C1: when the language tag resolves to no rule set (after lower-casing it is not
\* a key of the rule table, or it is empty, or none is passed), highlight returns
\* exactly escapeHtml(code), without any <span> wrapper.
C1_NoRulesReturnsEscaped ==
  (pc = "done" /\ LangOf(language) \notin LanguageKeys)
    => /\ result = escapeHtml(code)
       /\ \A c \in Range(Classes) : ~Occurs(SpanOpen(c), result)

C2_Expected ==
  SpanOf(<<"c", "o", "n", "s", "t">>, ClassName.keyword) \o <<" ", "x", " ", "=", " ">>
    \o SpanOf(SubSeq(S_const, 11, 25), ClassName.string) \o <<";">>

\* C2: for javascript, every literal the strings pass matched is emitted as one
\* hl-string span holding the whole literal, with no hl-keyword span inside; and
\* the concrete case const x = "function() {}"; comes out as the keyword const
\* followed by the whole literal in a single hl-string span.
C2_StringLiteralOneSpan ==
  (pc = "done" /\ rules = languages[Key.javascript] /\ CleanInput)
    => /\ \A k \in 1..Len(log) :
            log[k].cls = ClassName.string
              => /\ Occurs(placeholders[k], result)
                 /\ placeholders[k] = SpanOf(SubSeq(placeholders[k],
                                                    Len(SpanOpen(ClassName.string)) + 1,
                                                    Len(placeholders[k]) - Len(SpanClose)),
                                             ClassName.string)
                 /\ ~Occurs(SpanOpen(ClassName.keyword), placeholders[k])
       /\ code = S_const => result = C2_Expected

\* C3: the returned string holds no sentinel: no U+0000 that the engine wrote is
\* left in it, and the restoration pass replaced as many sentinels as the ledger
\* has entries.
C3_NoSentinelSurvives ==
  (pc = "done" /\ HasRules /\ CleanInput)
    => /\ \A p \in 1..Len(result) : result[p] # NUL
       /\ Len(restored) = Len(placeholders)

\* C4: the output is the escaped code with only wrappers added: deleting the
\* wrappers gives back exactly escapeHtml(code).
C4_OnlyWrappersAdded ==
  (pc = "done" /\ CleanInput) => StripSpans(result, 1) = escapeHtml(code)

\* C5: a pass matches only characters of the escaped source: no match of a pass
\* after the comments pass covers a character of a sentinel an earlier pass wrote.
C5_SentinelsOpaque ==
  \A k \in 1..Len(log) : log[k].cls # ClassName.comment => 0 \notin Range(log[k].src)

\* C6: the ledger is append-only with indices 0, 1, 2, ... in the order of
\* discovery, and the restoration pass reads every index exactly once.
C6_LedgerReadOnce ==
  /\ Len(log) = Len(placeholders)
  /\ \A k \in 1..Len(log) : log[k].idx = k - 1
  /\ (pc = "done" /\ HasRules /\ CleanInput)
       => \A n \in 0..(Len(placeholders) - 1) : Reads(n) = 1

\* C7: in a language with a comments rule and a keywords rule, no character that
\* the comments pass matched is matched by the keywords pass, and none is wrapped
\* in an hl-keyword span in the output.
C7_NoKeywordInsideComment ==
  /\ SrcOf(ClassName.comment) \cap SrcOf(ClassName.keyword) = {}
  /\ \A p \in 1..Len(result) :
       origin[p] \in SrcOf(ClassName.comment) => ~InsideSpan(result, p, ClassName.keyword)

\* a call has returned whose comments pass matched a span that holds one of the
\* language's keywords as a whole word
C7_Witness ==
  /\ pc = "done"
  /\ "keywords" \in DOMAIN rules
  /\ \E k \in 1..Len(log) :
       /\ log[k].cls = ClassName.comment
       /\ \E o \in Range(log[k].src) :
            LET e == wordList(escapeHtml(code), o, rules.keywords)
            IN  o > 0 /\ e > 0 /\ (e - 1) \in Range(log[k].src)

C9_RestoresOnlyOwnSentinels ==
  \A k \in 1..Len(restored) :
    /\ restored[k].idx < Len(placeholders)
    /\ Range(restored[k].src) = {0}

\* C10: the passes run in the order comments, strings, numbers, functions,
\* keywords, types, builtins, each once: every ledger entry carries the class of a
\* pass that has already run, and the classes never decrease along the ledger.
C10_PassOrder ==
  /\ Len(log) = Len(placeholders)
  /\ \A k \in 1..Len(log) :
       /\ StartsAt(placeholders[k], 1, SpanOpen(log[k].cls))
       /\ Rank(log[k].cls) < PcRank(pc)
  /\ \A j, k \in 1..Len(log) : j < k => Rank(log[j].cls) <= Rank(log[k].cls)

\* a call has returned whose ledger holds an entry of every one of the seven classes
C10_Witness ==
  /\ pc = "done"
  /\ {log[k].cls : k \in 1..Len(log)} = Range(Classes)

\* the heuristics of detectLanguage in the order the claim lists them, and the tag
\* each one stands for
Heuristic(i, c) ==
  CASE i = 1 -> includes(c, Probe.binBash) \/ includes(c, Probe.binSh)
    [] i = 2 -> includes(c, Probe.envPython)
    [] i = 3 -> includes(c, Probe.def_) /\ includes(c, Probe.colon)
    [] i = 4 -> includes(c, Probe.function_) \/ includes(c, Probe.arrow)
    [] i = 5 -> includes(c, Probe.interface_) \/ includes(c, Probe.colonString)
    [] i = 6 -> c # <<>> /\ Head(c) = "{" /\ c[Len(c)] = "}"
    [] i = 7 -> includes(c, Probe.doctype) \/ includes(c, Probe.htmlTag)

HeuristicTag == <<Key.bash, Key.python, Key.python, Key.javascript, Key.typescript, Key.json, Key.html>>

Matching(c) == {i \in 1..7 : Heuristic(i, c)}

Detected == guess.fn = "detectLanguage"

\* C14: detectLanguage returns the tag of the first heuristic, in the order bash
\* shebang, python shebang, python def, javascript, typescript, json, html, that
\* matches the code, whatever later heuristics match too; it returns no guess
\* exactly when none matches; every tag it returns is a key of the rule table.
C14_FirstHeuristicWins ==
  Detected =>
    LET M == Matching(guess.code)
    IN  /\ (M = {}) <=> (guess.out = Undefined)
        /\ M # {} => guess.out = HeuristicTag[CHOOSE i \in M : \A j \in M : i <= j]
        /\ guess.out \in LanguageKeys \cup {Undefined}

\* detectLanguage has returned bash for a code that a later heuristic of another
\* tag matches too, and bash for the concrete case of the specification
C14_Witness ==
  /\ Detected
  /\ guess.out = Key.bash
  /\ \/ guess.code = S_shebang
     \/ {3, 4} \cap Matching(guess.code) # {}

\* C15: a document that begins with { and ends with }, and that no heuristic
\* earlier in the order matches, is detected as json.
C15_BracedDocumentIsJson ==
  (/\ Detected
   /\ guess.code # <<>>
   /\ Head(guess.code) = "{"
   /\ guess.code[Len(guess.code)] = "}"
   /\ \A i \in 1..5 : ~Heuristic(i, guess.code))
    => guess.out = Key.json

\* detectLanguage has returned json for the concrete case of the specification
C15_Witness ==
  /\ Detected
  /\ guess.code = S_json
  /\ guess.out = Key.json

\* C19: the shebang heuristics are line-prefix checks: a shebang selects bash or
\* python only when it stands at the start of the code's first line.
C19_ShebangIsLinePrefix ==
  Detected =>
    /\ guess.out = Key.bash
         => startsWith(guess.code, Probe.binBash) \/ startsWith(guess.code, Probe.binSh)
    /\ (guess.out = Key.python /\ ~Heuristic(3, guess.code))
         => startsWith(guess.code, Probe.envPython)

\* a call of highlight has returned that repeats the remembered one
Repeated ==
  /\ pc = "done"
  /\ memo.fn = "highlight"
  /\ memo.code = code

\* C11: in any sequence of calls, a call of highlight or detectLanguage with the
\* arguments of an earlier call returns what the earlier call returned, whatever
\* calls ran in between; between calls every shared RegExp object has lastIndex 0.
C11_SameCallSameResult ==
  /\ (Repeated /\ memo.language = language) => result = memo.out
  /\ (Detected /\ memo.fn = "detectLanguage" /\ memo.code = guess.code)
       => guess.out = memo.out
  /\ pc = "idle" => \A r \in SharedRegex : lastIndex[r] = 0

\* a call whose passes wrote ledger entries has returned, with the arguments of
\* an earlier call and with another call in between
C11_Witness ==
  /\ Repeated
  /\ memo.language = language
  /\ memo.between
  /\ Len(placeholders) > 2

\* the canonical tag the claim pairs each alias with
CanonicalOf(l) ==
  CASE l = Key.js -> Key.javascript
    [] l = Key.ts -> Key.typescript
    [] l = Key.py -> Key.python
    [] l \in {Key.sh, Key.shell, Key.zsh} -> Key.bash
    [] OTHER -> l

SameLanguage(a, b) ==
  /\ a # Undefined
  /\ b # Undefined
  /\ CanonicalOf(toLowerCase(a)) = CanonicalOf(toLowerCase(b))

\* C13: highlight returns the same text for an alias as for its canonical tag,
\* and for every upper-case or lower-case spelling of either.
C13_AliasAndCaseInsensitive ==
  (Repeated /\ memo.language # language /\ SameLanguage(memo.language, language))
    => result = memo.out

\* javascript has returned wrapped output for a code that JS was called with before
C13_Witness ==
  /\ Repeated
  /\ memo.language = <<"J", "S">>
  /\ language = Key.javascript
  /\ Len(placeholders) > 2
  /\ result = memo.out

\* the entity the claim gives for a character
Entity(c) ==
  CASE c = "&" -> <<"&", "a", "m", "p", ";">>
    [] c = "<" -> <<"&", "l", "t", ";">>
    [] c = ">" -> <<"&", "g", "t", ";">>
    [] OTHER -> <<c>>

EntitiesOf(t) == Flatten([k \in 1..Len(t) |-> Entity(t[k])])

\* C12: the escaper replaces every &, < and > by its entity and leaves every
\* other character in place, and highlight applies it exactly once, before any
\* pass: the text the first pass receives, and the text returned when there are no
\* rules, is the code with each character replaced by its entity, once.
C12_EscapedOnceBeforePasses ==
  /\ pc = "comments" => (result = EntitiesOf(code) /\ placeholders = <<>>)
  /\ (pc = "done" /\ ~HasRules) => result = EntitiesOf(code)
  /\ pc # "idle" => \A p \in 1..Len(result) :
       origin[p] > 0 => result[p] = EntitiesOf(code)[origin[p]]

\* the first pass is about to run on the escaped form of a code that holds &, <,
\* > and an entity
C12_Witness ==
  /\ pc = "comments"
  /\ code = S_entities
  /\ Occurs(<<"&", "a", "m", "p", ";", "a", "m", "p", ";">>, result)
  /\ Occurs(<<"&", "l", "t", ";">>, result)

\* the ledger entry the restoration pass inserts for index idx
EntryAt(idx) == IF idx < Len(placeholders) THEN placeholders[idx + 1] ELSE UndefinedText

\* t read once from left to right, each sentinel replaced by its entry and the
\* reading resumed after the sentinel, never inside the entry
RECURSIVE OneLinearScan(_)
OneLinearScan(t) ==
  IF t = <<>> THEN <<>>
  ELSE LET e == sentinelRe(t, 1)
       IN  IF e > 0
             THEN EntryAt(parseInt(SubSeq(t, 2, e - 2))) \o OneLinearScan(SubSeq(t, e, Len(t)))
             ELSE <<Head(t)>> \o OneLinearScan(Tail(t))

\* C20: restoration is one linear scan of the working text that replaces each
\* sentinel by the ledger entry at its index, verbatim, and never scans what it
\* inserted: a sentinel inside a ledger entry is not expanded.
C20_RestoresInOneScan ==
  [][(pc = "restore" /\ pc' = "done") => result' = OneLinearScan(result)]_vars

\* the restoration pass has inserted a ledger entry that itself holds a sentinel,
\* and the sentinel is still in the output
C20_Witness ==
  /\ pc = "done"
  /\ \E k \in 1..Len(restored) :
       /\ restored[k].idx < Len(placeholders)
       /\ Scan(Regex("sentinelRe"), placeholders[restored[k].idx + 1], 1) # <<>>
       /\ Occurs(placeholders[restored[k].idx + 1], result)

\* the successor the claim gives each theme
Successor(theme) ==
  CASE theme = "dark" -> "light" [] theme = "light" -> "system" [] theme = "system" -> "dark"

\* the theme a stored value is read back as
ReadBack(stored) == IF stored \in {"light", "dark", "system"} THEN stored ELSE "system"

\* C16: each cycleTheme call stores and returns the successor, in the cycle dark,
\* light, system, of the theme read from the store, a missing or unrecognised
\* stored value being read as system; three consecutive calls return to the theme
\* they started from; the theme read back is always light, dark or system.
C16_ThemeCycle ==
  /\ getStoredTheme(localStorage) = ReadBack(localStorage)
  /\ \A k \in 1..Len(cycled.returned) :
       cycled.returned[k] =
         Successor(IF k = 1 THEN ReadBack(cycled.raw) ELSE cycled.returned[k - 1])
  /\ cycled.returned # <<>> => localStorage = cycled.returned[Len(cycled.returned)]
  /\ Len(cycled.returned) = 3 => cycled.returned[3] = ReadBack(cycled.raw)

\* cycleTheme has been called three times in a row, starting from a store that
\* held no theme or an unrecognised value
C16_Witness ==
  /\ Len(cycled.returned) = 3
  /\ cycled.raw \in {"missing", "blue"}
  /\ localStorage = "system"
  /\ dom.themeToggle.icon = "monitor"

\* a request of deleteSession that leaves in this step
DeleteCalled(t) == t \in tasks' \ tasks /\ t.fn = "deleteSession"

C18_FailuresNeverReject ==
  (calls.settled.fn # "none" /\ calls.settled.outcome \in {"networkFail", "jsonFail"})
    => /\ calls.settled.settled = "resolved"
       /\ calls.settled.null \/ calls.settled.error

\* the place of a statement in the body of highlight
Stage(p) ==
  CASE p = "idle" -> 0 [] p = "comments" -> 1 [] p = "strings" -> 2
    [] p = "numbers" -> 3 [] p = "functions" -> 4 [] p = "keywords" -> 5
    [] p = "types" -> 6 [] p = "builtins" -> 7 [] p = "restore" -> 8
    [] p = "done" -> 9

\* C21: every call of highlight returns.  Each statement of the call runs once
\* and hands over to the next one (seven classification passes at most, then
\* one restoration pass); the matches of a pass are found in the text as it was
\* before the pass, each consumes at least one character, so a pass makes no
\* more replacements than that text has characters.
C21_Terminates ==
  /\ [][(pc \notin {"idle", "done"}) =>
          /\ Stage(pc') = Stage(pc) + 1
          /\ Len(log') - Len(log) <= Len(result)
          /\ \A k \in (Len(log) + 1)..Len(log') :
               /\ log'[k].src # <<>>
               /\ Occurs(SubSeq(placeholders'[k],
                                Len(SpanOpen(log'[k].cls)) + 1,
                                Len(placeholders'[k]) - Len(SpanClose)),
                         result)
          /\ Len(restored') <= Len(result)
          /\ \A k \in 1..Len(restored') : Len(restored'[k].src) >= 3]_vars
  /\ (pc # "idle") ~> (pc = "done")

\* a call that ran all seven passes and restored their placeholders has returned
C21_Witness ==
  /\ pc = "done"
  /\ {"comments", "strings", "numbers", "functions", "keywords", "types", "builtins"}
       \subseteq DOMAIN rules
  /\ {log[k].cls : k \in 1..Len(log)} = Range(Classes)
  /\ Len(restored) >= 7

\* the field of a rule set that the pass of class c reads (lines 111-139)
FieldOf(c) ==
  CASE c = ClassName.comment -> "comments" [] c = ClassName.string -> "strings"
    [] c = ClassName.number -> "numbers" [] c = ClassName.function -> "functions"
    [] c = ClassName.keyword -> "keywords" [] c = ClassName.type -> "types"
    [] c = ClassName.builtin -> "builtins"

\* the classes of the spans the call produced: those it put in the ledger and
\* those whose opening wrapper stands in the text
Produced ==
  {log[k].cls : k \in 1..Len(log)} \cup {c \in Range(Classes) : Occurs(SpanOpen(c), result)}

\* C22: a category whose field the rule set of the language does not have is
\* skipped and never produced: the returned text holds no span of it.  So bash
\* gives no hl-function and no hl-type, json no hl-comment, hl-keyword,
\* hl-function or hl-builtin, and html only hl-string and hl-comment.
C22_AbsentFieldNeverProduced ==
  (pc = "done" /\ HasRules) =>
    /\ \A c \in Produced : FieldOf(c) \in DOMAIN rules
    /\ LangOf(language) = Key.bash =>
         Produced \cap {ClassName.function, ClassName.type} = {}
    /\ LangOf(language) = Key.json =>
         Produced \subseteq {ClassName.string, ClassName.type, ClassName.number}
    /\ LangOf(language) = Key.html =>
         Produced \subseteq {ClassName.string, ClassName.comment}

\* a bash call on a word followed by a parenthesis has returned with spans, none
\* of them a function span
C22_Witness ==
  /\ pc = "done"
  /\ LangOf(language) = Key.bash
  /\ Occurs(<<"f", "(">>, code)
  /\ ClassName.keyword \in Produced

----------------------------------------------------------------------------
\* the positions i..j-1 of the escaped code where an identifier and the
\* whitespace after it stand in front of "(", outside comments and strings
Callee(e, i) == i..(identCall(e, i) - 1)

IsCallee(e, i) ==
  /\ identCall(e, i) > 0
  /\ Callee(e, i) \cap (SrcOf(ClassName.comment) \cup SrcOf(ClassName.string)) = {}

\* C26: in a language with a functions rule, an identifier that is followed,
\* after optional whitespace, by "(" becomes a function span even when the
\* word is in the keywords, types or builtins list; the word is in no keyword,
\* type or builtin span, and no position of the code is covered by two matches.
C26_CallBeatsWordLists ==
  (pc = "done" /\ HasRules /\ "functions" \in DOMAIN rules) =>
    LET e == escapeHtml(code)
    IN  /\ \A i \in 1..Len(e) :
             IsCallee(e, i) =>
               /\ \E k \in 1..Len(log) :
                    /\ log[k].cls = ClassName.function
                    /\ Range(log[k].src) = Callee(e, i)
               /\ Callee(e, i) \cap (SrcOf(ClassName.keyword) \cup SrcOf(ClassName.type)
                                       \cup SrcOf(ClassName.builtin)) = {}
               /\ \A p \in 1..Len(result) :
                    origin[p] \in Callee(e, i) => InsideSpan(result, p, ClassName.function)
        /\ \A j, k \in 1..Len(log) :
             j # k => (Range(log[j].src) \cap Range(log[k].src)) \ {0} = {}

C26_Witness ==
  /\ pc = "done"
  /\ "functions" \in DOMAIN rules
  /\ code = <<"i", "f", "(">>
  /\ wordList(code, 1, rules.keywords) > 0
  /\ Len(log) = 1
  /\ log[1].cls = ClassName.function

----------------------------------------------------------------------------
\* the marker of a comment that runs to the end of its line
LineMarker ==
  IF rules.comments = "jsComments" THEN <<"/", "/">> ELSE <<"#">>

\* the literals of the escaped code e that open outside every comment and hold
\* a line marker before any other comment: <<i, j, m>> with the literal at
\* i..j-1 and its first comment marker at m
MarkedLiterals(e) ==
  {t \in (1..Len(e)) \X (1..(Len(e) + 1)) \X (1..Len(e)) :
     /\ MatchEnd(rules.strings, e, t[1]) = t[2]
     /\ t[1] \notin SrcOf(ClassName.comment)
     /\ t[1] < t[3] /\ t[3] < t[2]
     /\ StartsAt(e, t[3], LineMarker)
     /\ \A q \in (t[1] + 1)..(t[3] - 1) : MatchEnd(rules.comments, e, q) = 0}

\* C27: in a language whose comments run to the end of the line, a comment
\* marker inside a string literal is taken by the comments pass, which claims
\* the text from the marker to the end of the line; the literal around it is
\* then not matched by the strings pass and no hl-string span holds it.
C27_CommentMarkerInsideString ==
  (pc = "done" /\ HasRules /\ {"comments", "strings"} \subseteq DOMAIN rules
     /\ rules.comments \in {"jsComments", "hashComments"}) =>
    LET e == escapeHtml(code)
    IN  \A t \in MarkedLiterals(e) :
          /\ \E k \in 1..Len(log) :
               /\ log[k].cls = ClassName.comment
               /\ log[k].src # <<>>
               /\ log[k].src[1] = t[3]
               /\ CharAt(e, log[k].src[Len(log[k].src)] + 1) \in {"", "\n"}
               /\ \A n \in 1..Len(log[k].src) : log[k].src[n] = t[3] + n - 1
          /\ \A k \in 1..Len(log) :
               log[k].cls = ClassName.string => Range(log[k].src) # t[1]..(t[2] - 1)
          /\ ~Occurs(SpanOf(SubSeq(e, t[1], t[2] - 1), ClassName.string), result)

C27_Witness ==
  /\ pc = "done"
  /\ code \in {S_url, S_hash}
  /\ {"comments", "strings"} \subseteq DOMAIN rules
  /\ rules.comments \in {"jsComments", "hashComments"}
  /\ MarkedLiterals(code) # {}
  /\ \E k \in 1..Len(log) : log[k].cls = ClassName.comment

----------------------------------------------------------------------------
\* C28: the passes of html run on the escaped text, which holds no < and no >,
\* so the comments pattern of html, which looks for <!-- and -->, matches
\* nothing: the ledger never gets a comment entry and the returned text holds
\* no hl-comment span.
C28_HtmlNeverComment ==
  (HasRules /\ LangOf(language) = Key.html) =>
    /\ pc # "idle" => \A q \in 1..Len(escapeHtml(code)) :
                        /\ escapeHtml(code)[q] \notin {"<", ">"}
                        /\ MatchEnd(rules.comments, escapeHtml(code), q) = 0
    /\ \A k \in 1..Len(log) : log[k].cls # ClassName.comment
    /\ pc = "done" => ~Occurs(SpanOpen(ClassName.comment), result)

C28_Witness ==
  /\ pc = "done"
  /\ LangOf(language) = Key.html
  /\ code = S_comment
  /\ htmlComments(code, 1) = Len(code) + 1
  /\ Len(log) = 1
  /\ log[1].cls = ClassName.string

----------------------------------------------------------------------------
\* C30: in every state of the page state.currentSession is null or an index
\* of state.sessions, and getCurrentSession gives null, never a missing entry.
C30_CurrentSessionIsIndex ==
  /\ \/ state.currentSession = Null
     \/ (0 <= state.currentSession /\ state.currentSession < Len(state.sessions))
  /\ ~HasSession(state) => getCurrentSession(state).path = NoPath

----------------------------------------------------------------------------
\* C25: the path handed to deleteSession on confirmation is the path the
\* delete dialog shows, whatever happened since the dialog was opened.
C25_DeletesTheSessionShown ==
  [][\A t \in tasks' \ tasks :
       t.fn = "deleteSession" => t.path = dom.deleteSessionName]_vars

----------------------------------------------------------------------------
\* the loads of sessions in flight
Loads == {t \in tasks : t.fn = "loadSession"}

\* C29: with loads of several sessions in flight, the messages a load returns
\* for a path are stored on the session that has that path and on no other,
\* and when no load is in flight the message pane shows what renderMessages
\* gives for the session at state.currentSession: no other session's messages
\* and no loading skeleton.
C29_OverlappingLoads ==
  /\ \A k \in 1..Len(state.sessions) :
       state.sessions[k].messages \in {<<>>, <<state.sessions[k].path>>}
  /\ \A t \in Loads :
       t.live => /\ t.idx < Len(state.sessions)
                 /\ state.sessions[t.idx + 1].path = t.path
  /\ (Loads = {} /\ state.sessions # <<>>) =>
       /\ dom.messagesContainer = Pane(state)
       /\ dom.messagesContainer.kind # "loading"

\* two loads in flight at once, one of them for a session that is no longer
\* the current one
C29_Witness ==
  /\ Cardinality(Loads) = 2
  /\ \E t \in Loads : t.live /\ t.idx # state.currentSession
  /\ \E t \in Loads : t.live /\ t.idx = state.currentSession
  /\ dom.messagesContainer.kind = "loading"

----------------------------------------------------------------------------
\* the target is an input, a textarea, a select or an editable element
TypingTarget(el) ==
  /\ el.HTMLElement
  /\ \/ el.tagName \in {TagName.input, TagName.textarea, TagName.select}
     \/ el.isContentEditable

\* the registered shortcuts whose key, letter case aside, and whose ctrl, alt
\* and shift flags are those of the event; Ctrl and Meta both count as ctrl
Eligible(e) ==
  {n \in 1..Len(shortcuts) :
     /\ toLowerCase(shortcuts[n].key) = toLowerCase(e.key)
     /\ shortcuts[n].ctrl = (e.ctrlKey \/ e.metaKey)
     /\ shortcuts[n].alt = e.altKey
     /\ shortcuts[n].shift = e.shiftKey}

\* C24: a keydown whose target is an input, a textarea, a select or an editable
\* element runs no shortcut, and Escape there does nothing but blur the
\* element; any other keydown runs at most one action, that of the first
\* registered shortcut whose key (case-insensitively) and ctrl, alt and shift
\* flags equal the event's, and none when there is no such shortcut.
C24_ShortcutDispatch ==
  keydown # None =>
    LET e == keydown.event
        first == CHOOSE n \in Eligible(e) : \A m \in Eligible(e) : n <= m
    IN  IF TypingTarget(e.target)
          THEN /\ keydown.ran = <<>>
               /\ ~keydown.defaultPrevented
               /\ keydown.blurred <=> e.key = KeyName.Escape
          ELSE /\ ~keydown.blurred
               /\ Len(keydown.ran) <= 1
               /\ keydown.ran = IF Eligible(e) = {} THEN <<>>
                                ELSE <<shortcuts[first].action>>

\* J typed with Caps Lock outside the fields runs the shortcut j
C24_Witness ==
  /\ keydown # None
  /\ ~TypingTarget(keydown.event.target)
  /\ keydown.event.key = <<"J">>
  /\ keydown.ran = <<"Next session">>
  /\ keydown.defaultPrevented

\* how often sub stands in t
Count(sub, t) == Cardinality({q \in 1..(Len(t) - Len(sub) + 1) : StartsAt(t, q, sub)})

\* C23: when formatContentWithHighlight has returned, highlight has been called
\* once for each fenced block of the text, and what it returned for a block
\* stands in the returned text verbatim and exactly once, inside the pre element
\* of that block: escaping, redaction and the restoration of the placeholders
\* have left it as it was.
C23_HighlightedCodeVerbatim ==
  format.stage = "returned" =>
    /\ Cardinality({k \in DOMAIN format.replacements :
                      format.replacements[k].kind = "block"}) = Len(format.blocks)
    /\ \A k \in DOMAIN format.replacements :
         format.replacements[k].kind = "block" =>
           Count(format.replacements[k].pre, format.out) = 1

====
